---- MODULE Spec2Model ----
(***************************************************************************)
(* A model of the wipe engine of lethe (src/src/actions/wipe.rs): the      *)
(* WipeRun state machine driving a sanitization scheme through a storage   *)
(* access, with its bad block handling, retries and published events.      *)
(*                                                                         *)
(* The storage is the test double InMemoryStorage of wipe.rs, generalised  *)
(* by transient faults: every storage call may fail with an error that     *)
(* wraps a std::io::Error ("io") or with one that does not ("other").      *)
(***************************************************************************)
EXTENDS Integers, Sequences, FiniteSets, TLC

\* ------------------------------------------------------------- bounds
MaxRetries == 2
MaxFaults == 2

\* The geometries <<total_size, block_size>> of the devices: empty, smaller
\* than a block, whole blocks, blocks and a tail, and a block size that is
\* not a multiple of the generator's word.
Geometries == {<<0, 4>>, <<3, 4>>, <<8, 4>>, <<10, 4>>, <<3, 2>>}
VerifyModes == {"No", "Last", "All"}

\* ---------------------------------------------------------- constants
\* InMemoryStorage::new fills the device with 0xff.
InitByte == 255
\* The content of memory that was allocated and never written.
Uninit == -1
\* What a corrupted read returns.
Garbage == Uninit - 1

Min(a, b) == IF a < b THEN a ELSE b

\* ------------------------------------------------- stages and schemes
FillStage(v) == [kind |-> "Fill", value |-> v, seed |-> 0]
RandomStage(s) == [kind |-> "Random", value |-> 0, seed |-> s]

SchemeRepo ==
    [zero |-> <<FillStage(0)>>,
     random |-> <<RandomStage(1)>>,
     gost |-> <<FillStage(0), RandomStage(1)>>]

SchemeNames == {"zero", "random", "gost"}

\* Byte i of the key stream of the generator seeded with seed: the bytes of
\* different seeds and positions are kept apart, and apart from the bytes
\* 0..255 of the constant stages.
KeyStream(seed, i) == 1000 * seed + i

\* Stage::stream: the generator of a random stage is positioned at word
\* start_from >> 2; the buffer of a constant stage is filled once.
StageStream(stg, total_size, block_size, start_from) ==
    [kind |-> stg.kind,
     seed |-> stg.seed,
     gen |-> IF stg.kind = "Random" THEN start_from \div 4 ELSE 0,
     total_size |-> total_size,
     block_size |-> block_size,
     position |-> start_from,
     buf |-> [j \in 1..block_size |->
                IF stg.kind = "Fill" THEN stg.value ELSE Uninit],
     current_block_size |-> 0,
     eof |-> FALSE]

NoStream == [StageStream(FillStage(0), 0, 0, 0) EXCEPT !.eof = TRUE]

\* The words one fill_bytes over the whole buffer takes from the generator.
WordsPerFill(block_size) == (block_size + 3) \div 4

\* Mutant of StreamAdvance: the last chunk is a whole block.
StreamAdvanceNoMin(s) ==
    IF ~s.eof /\ s.position < s.total_size
    THEN [s EXCEPT
            !.buf = IF s.kind = "Random"
                    THEN [j \in 1..s.block_size |->
                            KeyStream(s.seed, 4 * s.gen + (j - 1))]
                    ELSE @,
            !.gen = IF s.kind = "Random"
                    THEN @ + WordsPerFill(s.block_size) ELSE @,
            !.current_block_size = s.block_size,
            !.position = @ + s.block_size]
    ELSE [s EXCEPT !.eof = TRUE]

\* SanitizationStream::advance
StreamAdvance(s) ==
    IF ~s.eof /\ s.position < s.total_size
    THEN LET chunk_size == Min(s.block_size, s.total_size - s.position)
         IN  [s EXCEPT
                !.buf = IF s.kind = "Random"
                        THEN [j \in 1..s.block_size |->
                                KeyStream(s.seed, 4 * s.gen + (j - 1))]
                        ELSE @,
                !.gen = IF s.kind = "Random"
                        THEN @ + WordsPerFill(s.block_size) ELSE @,
                !.current_block_size = chunk_size,
                !.position = @ + chunk_size]
    ELSE [s EXCEPT !.eof = TRUE]

\* SanitizationStream::get, when the stream is not at its end
StreamGet(s) == SubSeq(s.buf, 1, s.current_block_size)

\* An iteration over the stream of a stage: the stream, the chunks next()
\* returned so far and how often it returned None.
Iter(stg, total_size, block_size, start_from) ==
    [start_from |-> start_from,
     s |-> StageStream(stg, total_size, block_size, start_from),
     chunks |-> <<>>,
     nones |-> 0]

\* StreamingIterator::next: advance, then get
IterNext(it) ==
    LET s1 == StreamAdvance(it.s)
    IN  IF s1.eof
        THEN [it EXCEPT !.s = s1, !.nones = @ + 1]
        ELSE [it EXCEPT !.s = s1, !.chunks = Append(@, StreamGet(s1))]

\* No stream is iterated.
NoIter ==
    [stage |-> FillStage(0), total_size |-> 0, block_size |-> 1,
     a |-> Iter(FillStage(0), 0, 1, 0), b |-> Iter(FillStage(0), 0, 1, 0)]

\* ------------------------------------------------------ 64-bit values
\* A u64 is held as its four 16-bit digits, the most significant first.
Base == 65536

U64(n) == <<0, 0, n \div Base, n % Base>>

\* 1 << 32
Shl32 == <<0, 1, 0, 0>>

\* a > b
GreaterU64(a, b) ==
    \E i \in 1..4 : a[i] > b[i] /\ \A j \in 1..(i - 1) : a[j] = b[j]

\* a / d for a divisor 0 < d < 2^15
DivU64(a, d) ==
    LET n1 == a[1]
        n2 == (n1 % d) * Base + a[2]
        n3 == (n2 % d) * Base + a[3]
        n4 == (n3 % d) * Base + a[4]
    IN  <<n1 \div d, n2 \div d, n3 \div d, n4 \div d>>

\* a * d, wrapping at 2^64, for a factor 0 <= d < 2^15
MulU64(a, d) ==
    LET p4 == a[4] * d
        p3 == a[3] * d + p4 \div Base
        p2 == a[2] * d + p3 \div Base
        p1 == a[1] * d + p2 \div Base
    IN  <<p1 % Base, p2 % Base, p3 % Base, p4 % Base>>

\* a - 1 for a > 0
DecU64(a) ==
    LET low == CHOOSE i \in 1..4 : a[i] > 0 /\ \A j \in (i + 1)..4 : a[j] = 0
    IN  [i \in 1..4 |-> IF i < low THEN a[i]
                        ELSE IF i = low THEN a[i] - 1 ELSE Base - 1]

\* n as u32: the low 32 bits
AsU32(a) == <<0, 0, a[3], a[4]>>

\* -------------------------------------------------------- the marker
\* u32::max_value()
MaxU32 == <<0, 0, Base - 1, Base - 1>>

\* The indices that are marked one by one: those of the marker's tests.
MarkIndices == {U64(0), U64(13), U64(133), MaxU32}

\* A RoaringBitmap: the indices of MarkIndices it holds (some), and whether
\* it holds every other u32 (rest).
StoreNew == [rest |-> FALSE, some |-> {}]

\* RoaringBitmap::insert
StoreInsert(store, i) ==
    IF i \in MarkIndices THEN [store EXCEPT !.some = @ \cup {i}] ELSE store

\* RoaringBitmap::contains
StoreContains(store, i) ==
    IF i \in MarkIndices THEN i \in store.some ELSE store.rest

\* RoaringBitmap::len, a u64: 2^32 less the indices of MarkIndices that are
\* missing when the bitmap holds every other index.
StoreLen(store) ==
    LET n == Cardinality(store.some)
        missing == Cardinality(MarkIndices) - n
    IN  IF ~store.rest THEN U64(n)
        ELSE IF missing = 0 THEN Shl32
        ELSE <<0, 0, Base - 1, Base - missing>>

\* BlockMarker::is_marked
IsMarked(store, i) == StoreContains(store, i)

\* BlockMarker::total_marked: self.store.len() as u32
TotalMarked(store) == AsU32(StoreLen(store))

\* A marker and the last mark call made on it: the index, and the store
\* before the call.
Marker(store) ==
    [store |-> store, first |-> store, calls |-> 0, marked |-> {},
     last |-> U64(0), before |-> store]

\* BlockMarker::mark
Mark(m, i) ==
    [m EXCEPT !.store = StoreInsert(@, i), !.calls = @ + 1,
              !.marked = @ \cup {i}, !.last = i, !.before = m.store]

NoMarker == Marker(StoreNew)

\* ------------------------------------------------------ the command
\* The process has not exited.
Running == -1

\* A string is the sequence of its characters.
DigitChars == {"0", "1", "2", "3", "4", "5", "6", "7", "8", "9"}

DigitVal(c) ==
    CASE c = "0" -> 0 [] c = "1" -> 1 [] c = "2" -> 2 [] c = "3" -> 3
      [] c = "4" -> 4 [] c = "5" -> 5 [] c = "6" -> 6 [] c = "7" -> 7
      [] c = "8" -> 8 [] c = "9" -> 9

\* a * d + c on digits of any length, the most significant first; what does
\* not fit in the length is dropped.
RECURSIVE MulAdd(_, _, _)
MulAdd(a, d, c) ==
    IF a = <<>> THEN <<>>
    ELSE LET n == Len(a)
             v == a[n] * d + c
         IN  MulAdd(SubSeq(a, 1, n - 1), d, v \div Base) \o <<v % Base>>

\* a * d + c on a u64: the wrapped value, and whether it overflowed.
MulAddU64(a, d, c) ==
    LET w == MulAdd(<<0>> \o a, d, c)
    IN  [val |-> SubSeq(w, 2, 5), overflow |-> w[1] # 0]

\* x & y on 16-bit digits
RECURSIVE And16(_, _, _)
And16(x, y, bits) ==
    IF bits = 0 THEN 0
    ELSE (x % 2) * (y % 2) + 2 * And16(x \div 2, y \div 2, bits - 1)

\* a & b
AndU64(a, b) == [i \in 1..4 |-> And16(a[i], b[i], 16)]

\* a - 1, wrapping
DecWrapU64(a) ==
    IF a = U64(0) THEN <<Base - 1, Base - 1, Base - 1, Base - 1>> ELSE DecU64(a)

\* (\d+): the length of the longest prefix of digits
RECURSIVE DigitPrefix(_)
DigitPrefix(s) ==
    IF s # <<>> /\ Head(s) \in DigitChars THEN 1 + DigitPrefix(Tail(s)) ELSE 0

\* " *": the string without its leading spaces
RECURSIVE SkipSpaces(_)
SkipSpaces(s) == IF s # <<>> /\ Head(s) = " " THEN SkipSpaces(Tail(s)) ELSE s

\* What follows the digits and the spaces.
UnitPart(s) == SkipSpaces(SubSeq(s, DigitPrefix(s) + 1, Len(s)))

\* ^(?i)(\d+) *(([km])b?)?$
BlockSizeRegex(s) ==
    /\ DigitPrefix(s) >= 1
    /\ \/ UnitPart(s) = <<>>
       \/ /\ Len(UnitPart(s)) \in {1, 2}
          /\ UnitPart(s)[1] \in {"k", "K", "m", "M"}
          /\ Len(UnitPart(s)) = 2 => UnitPart(s)[2] \in {"b", "B"}

\* groups.get(3), in upper case ("": no unit)
UnitOf(s) ==
    IF UnitPart(s) = <<>> THEN ""
    ELSE IF UnitPart(s)[1] \in {"k", "K"} THEN "K" ELSE "M"

\* str::parse::<usize> of a string of digits, on 64 bits
RECURSIVE ParseUsize(_, _)
ParseUsize(s, acc) ==
    IF s = <<>> THEN [ok |-> TRUE, val |-> acc]
    ELSE LET r == MulAddU64(acc, 10, DigitVal(Head(s)))
         IN  IF r.overflow THEN [ok |-> FALSE, val |-> U64(0)]
             ELSE ParseUsize(Tail(s), r.val)

\* units * unit_size: the wrapped product, and whether it overflowed
TimesUnit(units, unit) ==
    LET k == MulAddU64(units, 1024, 0)
        m == MulAddU64(k.val, 1024, 0)
    IN  CASE unit = "K" -> k
          [] unit = "M" -> [val |-> m.val, overflow |-> k.overflow \/ m.overflow]
          [] OTHER -> [val |-> units, overflow |-> FALSE]

ParseOk(n) == [kind |-> "Ok", value |-> n]
ParseErr == [kind |-> "Err", value |-> U64(0)]
ParsePanic == [kind |-> "Panic", value |-> U64(0)]

\* parse_block_size: in a build with overflow checks an overflowing
\* multiplication or subtraction panics, in one without them it wraps.
ParseBlockSize(s, build) ==
    IF ~BlockSizeRegex(s) THEN ParseErr
    ELSE LET units == ParseUsize(SubSeq(s, 1, DigitPrefix(s)), U64(0))
             bytes_length == TimesUnit(units.val, UnitOf(s))
         IN  IF ~units.ok THEN ParseErr
             ELSE IF bytes_length.overflow /\ build = "debug" THEN ParsePanic
             ELSE IF bytes_length.val = U64(0) /\ build = "debug" THEN ParsePanic
             ELSE IF AndU64(bytes_length.val, DecWrapU64(bytes_length.val)) = U64(0)
             THEN ParseOk(bytes_length.val)
             ELSE ParseErr

\* The call of parse_block_size before it returned, and after.
ParseCall(s, build) ==
    [input |-> s, build |-> build, returned |-> FALSE,
     result |-> [kind |-> "", value |-> U64(0)]]

ParseReturned(c) ==
    [c EXCEPT !.returned = TRUE, !.result = ParseBlockSize(c.input, c.build)]

NoParse == ParseCall(<<>>, "release")

\* -------------------------------------------------------------- state
VARIABLES
    task,       \* WipeTask: scheme, verify, total_size, block_size
    state,      \* WipeState: stage, at_verification, position, retries_left, bad_blocks
    access,     \* the storage: file, pos, bad_blocks, faults
    pc,         \* where WipeRun::run is
    loc,        \* the locals of run, fill and verify
    log,        \* the events published and the storage calls made, in order
    ctor,       \* the call of WipeTask::new: its arguments and what it returned
    strm,       \* two iterations over streams of one stage, and what they yielded
    marker,     \* a RoaringBlockMarker and the mark calls made on it
    parse,      \* the call of parse_block_size: its argument and what it returned
    status      \* the exit status of the process (Running: it has not exited)

vars == <<task, state, access, pc, loc, log, ctor, strm, marker, parse, status>>

\* What the engine does not touch while it runs.
units == <<ctor, strm, marker, parse, status>>

\* What the units of the library leave alone.
idle == <<task, state, access, pc, loc, log, status>>

NoErr == [kind |-> "none", id |-> 0]
MkErr(kind, id) == [kind |-> kind, id |-> id]

Stages == SchemeRepo[task.scheme]

NumBlocks(total_size, block_size) == (total_size + block_size - 1) \div block_size

\* WipeTask::new accepts the task (the sizes of the model are far below 2^32).
TaskNew(scheme, verify, total_size, block_size) ==
    [scheme |-> scheme, verify |-> verify,
     total_size |-> total_size, block_size |-> block_size]

\* Mutant of WipeTaskNew: a block count of exactly 2^32 is refused.
WipeTaskNewStrict(scheme, verify, total_size, block_size) ==
    IF ~GreaterU64(Shl32, DivU64(total_size, block_size))
    THEN [ok |-> FALSE, scheme |-> "", verify |-> "",
          total_size |-> U64(0), block_size |-> 0]
    ELSE [ok |-> TRUE, scheme |-> scheme, verify |-> verify,
          total_size |-> total_size, block_size |-> block_size]

\* WipeTask::new on a u64 total_size: Err when total_size / block_size is
\* more than 1 << 32, else the task.
WipeTaskNew(scheme, verify, total_size, block_size) ==
    IF GreaterU64(DivU64(total_size, block_size), Shl32)
    THEN [ok |-> FALSE, scheme |-> "", verify |-> "",
          total_size |-> U64(0), block_size |-> 0]
    ELSE [ok |-> TRUE, scheme |-> scheme, verify |-> verify,
          total_size |-> total_size, block_size |-> block_size]

\* The call of WipeTask::new before it returned, and after it returned r.
NewCall(scheme, verify, total_size, block_size) ==
    [scheme |-> scheme, verify |-> verify, total_size |-> total_size,
     block_size |-> block_size, returned |-> FALSE,
     result |-> WipeTaskNew("", "", U64(0), 1),
     at |-> FALSE, position |-> U64(0), index |-> U64(0), block_number |-> U64(0)]

NewReturned(c) ==
    [c EXCEPT !.returned = TRUE,
              !.result = WipeTaskNew(c.scheme, c.verify, c.total_size, c.block_size)]

\* The bad positions the device is built with (InMemoryStorage::fail_at):
\* none, or the start of every block.
DevBadChoices(total_size, block_size) ==
    {{}, {b * block_size : b \in 0..(NumBlocks(total_size, block_size) - 1)}}

\* WipeState::default with retries_left set by the caller (bin.rs), and the
\* blocks the caller marked beforehand.
WipeStateDefault(retries, marked) ==
    [stage |-> 0, at_verification |-> FALSE, position |-> 0,
     retries_left |-> retries, bad_blocks |-> marked]

PreMarkedChoices(total_size, block_size) ==
    {{}} \cup {{b} : b \in {x \in {1} : x < NumBlocks(total_size, block_size)}}

\* The task, the state and the device of a run, with the program at start.
InitAt(start) ==
    /\ \E sn \in SchemeNames, v \in VerifyModes, g \in Geometries :
       LET ts == g[1]
           bs == g[2]
       IN
         /\ ctor = NewReturned(NewCall(sn, v, U64(ts), bs))
         /\ ctor.result.ok
         /\ task = TaskNew(sn, v, ts, bs)
         /\ \E db \in DevBadChoices(ts, bs) :
              access = [file |-> [o \in 0..(ts - 1) |-> InitByte],
                        pos |-> 0, bad_blocks |-> db, faults |-> 0]
         /\ \E r \in 0..MaxRetries, pm \in PreMarkedChoices(ts, bs) :
              state = WipeStateDefault(r, pm)
    /\ strm = NoIter
    /\ marker = NoMarker
    /\ parse = NoParse
    /\ status = Running
    /\ pc = start
    /\ loc = [i |-> 0, phase |-> "fill", watermark |-> 0, skip_next |-> FALSE,
              stream |-> NoStream, buf |-> <<>>,
              wipe_error |-> NoErr, err |-> NoErr, result |-> FALSE]
    /\ log = <<>>

\* WipeTask::run is called on the task, the state and the opened device.
Init == InitAt("run")

\* ------------------------------------------------------------ helpers
\* What the receiver is handed: the event and the state at that moment.
Ev(st, name, arg, e) ==
    [k |-> "ev", name |-> name, arg |-> arg, err |-> e, out |-> "",
     stage |-> st.stage, at_verification |-> st.at_verification,
     position |-> st.position, retries_left |-> st.retries_left,
     bad_blocks |-> st.bad_blocks, offs |-> -1]

\* A call of the storage access, with the state and the storage offset at the call.
Call(st, acc, name, arg, out) ==
    [k |-> "call", name |-> name, arg |-> arg, err |-> NoErr, out |-> out,
     stage |-> st.stage, at_verification |-> st.at_verification,
     position |-> st.position, retries_left |-> st.retries_left,
     bad_blocks |-> st.bad_blocks, offs |-> acc.pos]

\* Mutant of AdvancePos: the position is not clamped to total_size.
AdvancePosNoClamp(position, bytes, total_size) == position + bytes

\* WipeRun::advance without its publish
AdvancePos(position, bytes, total_size) ==
    IF position + bytes > total_size THEN total_size ELSE position + bytes

Advance(st, bytes) ==
    [st EXCEPT !.position = AdvancePos(@, bytes, task.total_size)]

\* Mutant of AdvanceLog: Progress is published with the position before
\* the advance.
AdvanceLogStale(lg, st, bytes) ==
    LET st1 == Advance(st, bytes)
    IN  Append(lg, Ev(st1, "Progress", st.position, NoErr))

\* Mutant of AdvanceLog: the advance that reaches the end publishes nothing.
AdvanceLogNoFinal(lg, st, bytes) ==
    LET st1 == Advance(st, bytes)
    IN  IF st1.position = task.total_size THEN lg
        ELSE Append(lg, Ev(st1, "Progress", st1.position, NoErr))

\* WipeRun::advance: the state and the log after it
AdvanceLog(lg, st, bytes) ==
    LET st1 == Advance(st, bytes)
    IN  Append(lg, Ev(st1, "Progress", st1.position, NoErr))

\* Mutant of AtTheEnd: the last block is taken for the end.
AtTheEndEarly(st) == st.position + task.block_size >= task.total_size

\* WipeRun::at_the_end
AtTheEnd(st) == st.position >= task.total_size

CurrentBlockNumber(st) == st.position \div task.block_size

\* Mutant of IsAtBadBlock: the marker is asked about the next block.
IsAtBadBlockNext(st) == (CurrentBlockNumber(st) + 1) \in st.bad_blocks

\* WipeRun::is_at_bad_block
IsAtBadBlock(st) == CurrentBlockNumber(st) \in st.bad_blocks

\* Mutant of MarkCurrent: the marker is left as it is.
MarkCurrentNone(st) == st

\* Mutant of MarkCurrent: the next block is marked with the current one.
MarkCurrentTwo(st) ==
    [st EXCEPT !.bad_blocks = @ \cup {CurrentBlockNumber(st), CurrentBlockNumber(st) + 1}]

\* Mutant of MarkCurrent: the marker forgets the blocks marked before.
MarkCurrentOnly(st) == [st EXCEPT !.bad_blocks = {CurrentBlockNumber(st)}]

\* BlockMarker::mark of the current block
MarkCurrent(st) == [st EXCEPT !.bad_blocks = @ \cup {CurrentBlockNumber(st)}]

\* Mutant of BadBlockEvent: the payload is the block index.
BadBlockEventIndex(st1) == Ev(st1, "MarkBlockAsBad", st1.position \div task.block_size, NoErr)

\* The MarkBlockAsBad event of try_seek and try_write: published after the
\* current block was marked (st1), with the byte position as its payload.
BadBlockEvent(st1) == Ev(st1, "MarkBlockAsBad", st1.position, NoErr)

\* Mutant of UnderlyingIoErrorKind: every error counts as a bad block.
UnderlyingIoErrorKindAny(out) == out # "ok"

\* Mutant of UnderlyingIoErrorKind: no error counts as a bad block.
UnderlyingIoErrorKindNone(out) == FALSE

\* underlying_io_error_kind: Some(_) exactly for an error that wraps an
\* io::Error: a transient one ("io") or the one of a bad position ("bad").
UnderlyingIoErrorKind(out) == out \in {"io", "bad"}

\* A transient fault is counted; the error of a bad position is not.
Faulted(acc, out) == [acc EXCEPT !.faults = IF out \in {"ok", "bad"} THEN @ ELSE @ + 1]

\* The transient faults the storage may still produce.
Transient(acc) == IF acc.faults < MaxFaults THEN {"io", "other"} ELSE {}

SeekOutcomes(acc) == {"ok"} \cup Transient(acc)

\* InMemoryStorage::check_for_traps for a write of len bytes at the offset
WriteOutcomes(acc, len) ==
    IF \E b \in acc.bad_blocks : acc.pos <= b /\ acc.pos + len > b
    THEN {"bad"}
    ELSE {"ok"} \cup Transient(acc)

\* A read fails with an io::Error, or returns other bytes than were written.
\* verify does not look at the kind of a read or flush error, so one kind is
\* enough for each.
ReadOutcomes(acc) ==
    {"ok"} \cup (IF acc.faults < MaxFaults THEN {"io", "corrupt"} ELSE {})

FlushOutcomes(acc) == {"ok"} \cup (IF acc.faults < MaxFaults THEN {"io"} ELSE {})

\* Cursor<Vec<u8>>::write_all at the offset
WriteFile(acc, data) ==
    [acc EXCEPT
       !.file = [o \in DOMAIN @ |->
                   IF acc.pos <= o /\ o < acc.pos + Len(data)
                   THEN data[o - acc.pos + 1] ELSE @[o]],
       !.pos = @ + Len(data)]

\* Cursor<Vec<u8>>::read at the offset: the bytes read
ReadFile(acc, len) ==
    [j \in 1..Min(len, Cardinality(DOMAIN acc.file) - acc.pos) |-> acc.file[acc.pos + j - 1]]

\* WipeRun::try_seek under the seek's outcome out: the state, storage and log
\* after it, its result (ok), and the error it returns (NoErr: none).
TrySeek(st, acc, lg, out) ==
    IF IsAtBadBlock(st)
    THEN [state |-> st, access |-> acc, log |-> lg, ok |-> FALSE, err |-> NoErr]
    ELSE LET lg1 == Append(lg, Call(st, acc, "seek", st.position, out))
             acc1 == Faulted(acc, out)
         IN  IF out = "ok"
             THEN [state |-> st, access |-> [acc EXCEPT !.pos = st.position],
                   log |-> lg1, ok |-> TRUE, err |-> NoErr]
             ELSE IF UnderlyingIoErrorKind(out)
             THEN LET st1 == MarkCurrent(st)
                  IN  [state |-> st1, access |-> acc1,
                       log |-> Append(lg1, BadBlockEvent(st1)),
                       ok |-> FALSE, err |-> NoErr]
             ELSE [state |-> st, access |-> acc1, log |-> lg1, ok |-> FALSE,
                   err |-> MkErr(out, Len(lg1))]

\* The outcomes try_seek can meet: it makes no call at a marked block.
TrySeekOutcomes(st, acc) == IF IsAtBadBlock(st) THEN {"ok"} ELSE SeekOutcomes(acc)

\* Mutant of HaveToVerify: the guard of Verify::Last is missing.
HaveToVerifyLastAlways(verify, i, n) == verify \in {"Last", "All"}

\* run's have_to_verify for stage i of n
HaveToVerify(verify, i, n) ==
    CASE verify = "No" -> FALSE
      [] verify = "Last" /\ i + 1 = n -> TRUE
      [] verify = "All" -> TRUE
      [] OTHER -> FALSE

\* Mutant of EnterBody: the test of at_the_end is missing.
EnterBodyAlways(st) ==
    /\ pc' = IF loc.phase = "fill" THEN "fill_loop" ELSE "verify_loop"
    /\ loc' = [loc EXCEPT
                 !.stream = StageStream(Stages[loc.i + 1], task.total_size,
                                        task.block_size, st.position),
                 !.skip_next = FALSE,
                 !.buf = [j \in 1..task.block_size |-> Uninit]]

\* fill and verify after seek_to_the_next_safe_position returned Ok: at the
\* end they return Ok, otherwise they build the stream (and verify its buffer).
EnterBody(st) ==
    IF AtTheEnd(st)
    THEN /\ pc' = "returned"
         /\ loc' = [loc EXCEPT !.err = NoErr]
    ELSE /\ pc' = IF loc.phase = "fill" THEN "fill_loop" ELSE "verify_loop"
         /\ loc' = [loc EXCEPT
                      !.stream = StageStream(Stages[loc.i + 1], task.total_size,
                                             task.block_size, st.position),
                      !.skip_next = FALSE,
                      !.buf = [j \in 1..task.block_size |-> Uninit]]

\* ------------------------------------------------------------ actions
\* Mutant of Run: the storage is rewound before Started is published.
RunSeeksFirst ==
    /\ pc = "run"
    /\ log' = log \o <<Call(state, access, "seek", 0, "ok"),
                       Ev(state, "Started", 0, NoErr)>>
    /\ loc' = [loc EXCEPT !.wipe_error = NoErr]
    /\ pc' = "stage"
    /\ UNCHANGED <<units, task, state, access>>

\* run: publish Started
Run ==
    /\ pc = "run"
    /\ log' = Append(log, Ev(state, "Started", 0, NoErr))
    /\ loc' = [loc EXCEPT !.wipe_error = NoErr]
    /\ pc' = "stage"
    /\ UNCHANGED <<units, task, state, access>>

\* Mutant of AttemptStart: fill does not publish its first Progress.
AttemptStartNoProgress(st, lg) ==
    /\ loc' = [loc EXCEPT !.watermark = st.position, !.phase = "fill"]
    /\ log' = Append(lg, Ev(st, "StageStarted", 0, NoErr))
    /\ pc' = "seek_safe"

\* run: an attempt of the stage starts with its fill phase, from the state
\* st and the log lg: the watermark is taken, StageStarted is published and
\* fill publishes its first Progress.
AttemptStart(st, lg) ==
    /\ loc' = [loc EXCEPT !.watermark = st.position, !.phase = "fill"]
    /\ log' = lg \o <<Ev(st, "StageStarted", 0, NoErr),
                      Ev(st, "Progress", st.position, NoErr)>>
    /\ pc' = "seek_safe"

\* Mutant of StageBegin: the position is not reset for the next stage.
StageBeginKeepPosition ==
    /\ pc = "stage"
    /\ loc.i < Len(Stages)
    /\ LET st1 == [state EXCEPT !.stage = loc.i, !.at_verification = FALSE]
       IN  /\ state' = st1
           /\ AttemptStart(st1, log)
    /\ UNCHANGED <<units, task, access>>

\* run: the next stage of the scheme and its first attempt
StageBegin ==
    /\ pc = "stage"
    /\ loc.i < Len(Stages)
    /\ LET st1 == [state EXCEPT !.stage = loc.i, !.position = 0,
                                !.at_verification = FALSE]
       IN  /\ state' = st1
           /\ AttemptStart(st1, log)
    /\ UNCHANGED <<units, task, access>>

\* Mutant of RunResult: the test of the error is inverted.
RunResultInverted(wipe_error) == wipe_error # NoErr

\* run: result = wipe_error.is_none()
RunResult(wipe_error) == wipe_error = NoErr

\* run: the scheme is exhausted: publish Completed(None) and return true
StagesDone ==
    /\ pc = "stage"
    /\ loc.i >= Len(Stages)
    /\ log' = Append(log, Ev(state, "Completed", 0, loc.wipe_error))
    /\ loc' = [loc EXCEPT !.result = RunResult(loc.wipe_error)]
    /\ pc' = "done"
    /\ UNCHANGED <<units, task, state, access>>

\* seek_to_the_next_safe_position: at the end
SeekSafeAtEnd ==
    /\ pc = "seek_safe"
    /\ AtTheEnd(state)
    /\ EnterBody(state)
    /\ UNCHANGED <<units, task, state, access, log>>

\* Mutant of SeekSafeSkip: two blocks are passed over at once.
SeekSafeSkipTwo ==
    /\ pc = "seek_safe"
    /\ ~AtTheEnd(state)
    /\ IsAtBadBlock(state)
    /\ state' = Advance(state, 2 * task.block_size)
    /\ log' = AdvanceLog(log, state, 2 * task.block_size)
    /\ UNCHANGED <<units, task, access, pc, loc>>

\* seek_to_the_next_safe_position: pass over a marked block
SeekSafeSkip ==
    /\ pc = "seek_safe"
    /\ ~AtTheEnd(state)
    /\ IsAtBadBlock(state)
    /\ state' = Advance(state, task.block_size)
    /\ log' = AdvanceLog(log, state, task.block_size)
    /\ UNCHANGED <<units, task, access, pc, loc>>

\* seek_to_the_next_safe_position: try_seek to the current block
SeekSafeSeek ==
    /\ pc = "seek_safe"
    /\ ~AtTheEnd(state)
    /\ ~IsAtBadBlock(state)
    /\ \E out \in SeekOutcomes(access) :
         LET r == TrySeek(state, access, log, out)
         IN  /\ access' = r.access
             /\ IF r.err # NoErr
                THEN /\ state' = r.state
                     /\ log' = r.log
                     /\ loc' = [loc EXCEPT !.err = r.err]
                     /\ pc' = "returned"
                ELSE IF r.ok
                THEN /\ state' = r.state
                     /\ log' = r.log
                     /\ EnterBody(r.state)
                ELSE /\ state' = Advance(r.state, task.block_size)
                     /\ log' = AdvanceLog(r.log, r.state, task.block_size)
                     /\ UNCHANGED <<pc, loc>>
    /\ UNCHANGED <<units, task>>

\* fill: the stream is exhausted: access.flush()
FillFlush ==
    /\ pc = "fill_loop"
    /\ StreamAdvance(loc.stream).eof
    /\ \E out \in FlushOutcomes(access) :
         LET lg1 == Append(log, Call(state, access, "flush", 0, out))
         IN  /\ log' = lg1
             /\ access' = Faulted(access, out)
             /\ loc' = [loc EXCEPT !.stream = StreamAdvance(loc.stream),
                                   !.err = IF out = "ok" THEN NoErr
                                           ELSE MkErr(out, Len(lg1))]
    /\ pc' = "returned"
    /\ UNCHANGED <<units, task, state>>

\* fill: the chunk is not written (skip_next, or try_write at a marked block)
FillSkip ==
    /\ pc = "fill_loop"
    /\ LET s1 == StreamAdvance(loc.stream)
       IN  /\ ~s1.eof
           /\ loc.skip_next \/ IsAtBadBlock(state)
           /\ loc' = [loc EXCEPT !.stream = s1]
           /\ state' = Advance(state, Len(StreamGet(s1)))
           /\ log' = AdvanceLog(log, state, Len(StreamGet(s1)))
    /\ pc' = "fill_seek"
    /\ UNCHANGED <<units, task, access>>

\* fill: try_write of the chunk
FillWrite ==
    /\ pc = "fill_loop"
    /\ LET s1 == StreamAdvance(loc.stream)
           chunk == StreamGet(s1)
       IN  /\ ~s1.eof
           /\ ~loc.skip_next
           /\ ~IsAtBadBlock(state)
           /\ \E out \in WriteOutcomes(access, Len(chunk)) :
                LET lg1 == Append(log, Call(state, access, "write", Len(chunk), out))
                IN  IF out = "ok"
                    THEN /\ access' = WriteFile(access, chunk)
                         /\ state' = Advance(state, Len(chunk))
                         /\ log' = AdvanceLog(lg1, state, Len(chunk))
                         /\ loc' = [loc EXCEPT !.stream = s1]
                         /\ pc' = "fill_loop"
                    ELSE IF UnderlyingIoErrorKind(out)
                    THEN LET st1 == MarkCurrent(state)
                             lg2 == Append(lg1, BadBlockEvent(st1))
                         IN  /\ access' = Faulted(access, out)
                             /\ state' = Advance(st1, Len(chunk))
                             /\ log' = AdvanceLog(lg2, st1, Len(chunk))
                             /\ loc' = [loc EXCEPT !.stream = s1]
                             /\ pc' = "fill_seek"
                    ELSE /\ access' = Faulted(access, out)
                         /\ log' = lg1
                         /\ loc' = [loc EXCEPT !.stream = s1, !.err = MkErr(out, Len(lg1))]
                         /\ pc' = "returned"
                         /\ UNCHANGED state
    /\ UNCHANGED <<units, task>>

\* fill: skip_next = !try_seek()? after a chunk that was not written
FillTrySeek ==
    /\ pc = "fill_seek"
    /\ \E out \in TrySeekOutcomes(state, access) :
         LET r == TrySeek(state, access, log, out)
         IN  /\ state' = r.state
             /\ access' = r.access
             /\ log' = r.log
             /\ IF r.err # NoErr
                THEN /\ loc' = [loc EXCEPT !.err = r.err]
                     /\ pc' = "returned"
                ELSE /\ loc' = [loc EXCEPT !.skip_next = ~r.ok]
                     /\ pc' = "fill_loop"
    /\ UNCHANGED <<units, task>>

\* Mutant of VerifyEnd: verify flushes the storage when its stream is exhausted.
VerifyEndFlush ==
    /\ pc = "verify_loop"
    /\ StreamAdvance(loc.stream).eof
    /\ loc' = [loc EXCEPT !.stream = StreamAdvance(loc.stream), !.err = NoErr]
    /\ log' = Append(log, Call(state, access, "flush", 0, "ok"))
    /\ pc' = "returned"
    /\ UNCHANGED <<units, task, state, access>>

\* verify: the stream is exhausted
VerifyEnd ==
    /\ pc = "verify_loop"
    /\ StreamAdvance(loc.stream).eof
    /\ loc' = [loc EXCEPT !.stream = StreamAdvance(loc.stream), !.err = NoErr]
    /\ pc' = "returned"
    /\ UNCHANGED <<units, task, state, access, log>>

\* verify: a marked block is passed over without a read
VerifySkip ==
    /\ pc = "verify_loop"
    /\ LET s1 == StreamAdvance(loc.stream)
       IN  /\ ~s1.eof
           /\ IsAtBadBlock(state)
           /\ loc' = [loc EXCEPT !.stream = s1]
           /\ state' = Advance(state, Len(StreamGet(s1)))
           /\ log' = AdvanceLog(log, state, Len(StreamGet(s1)))
    /\ pc' = "verify_seek"
    /\ UNCHANGED <<units, task, access>>

\* The bytes a read of len bytes stores in the buffer under the outcome out.
ReadData(acc, len, out) ==
    IF out = "corrupt" THEN [j \in 1..len |-> Garbage] ELSE ReadFile(acc, len)

\* The buffer after data was read into its head.
BufAfterRead(buf, data) ==
    [j \in DOMAIN buf |-> IF j <= Len(data) THEN data[j] ELSE buf[j]]

\* Mutant of ChunkDiffers: the comparison is skipped.
ChunkDiffersNever(b, chunk) == FALSE

\* verify: b != chunk
ChunkDiffers(b, chunk) == b # chunk

\* Mutant of ReadFailed: the block of a failed read is marked.
ReadFailedMarks(st, lg) ==
    LET st1 == MarkCurrent(st)
    IN  [state |-> st1, log |-> Append(lg, BadBlockEvent(st1))]

\* verify: access.read(b)? returns the error: the state and the log are left
\* as they are.
ReadFailed(st, lg) == [state |-> st, log |-> lg]

\* verify: read the block and compare it with the chunk
VerifyRead ==
    /\ pc = "verify_loop"
    /\ LET s1 == StreamAdvance(loc.stream)
           chunk == StreamGet(s1)
       IN  /\ ~s1.eof
           /\ ~IsAtBadBlock(state)
           /\ \E out \in ReadOutcomes(access) :
                LET lg1 == Append(log, Call(state, access, "read", Len(chunk), out))
                    data == ReadData(access, Len(chunk), out)
                    buf1 == BufAfterRead(loc.buf, data)
                    b == SubSeq(buf1, 1, Len(chunk))
                IN  IF out \in {"ok", "corrupt"}
                    THEN /\ access' = [Faulted(access, out) EXCEPT !.pos = @ + Len(data)]
                         /\ IF ChunkDiffers(b, chunk)
                            THEN /\ loc' = [loc EXCEPT !.stream = s1, !.buf = buf1,
                                                       !.err = MkErr("mismatch", Len(lg1))]
                                 /\ log' = lg1
                                 /\ pc' = "returned"
                                 /\ UNCHANGED state
                            ELSE /\ loc' = [loc EXCEPT !.stream = s1, !.buf = buf1]
                                 /\ state' = Advance(state, Len(chunk))
                                 /\ log' = AdvanceLog(lg1, state, Len(chunk))
                                 /\ pc' = "verify_loop"
                    ELSE /\ access' = Faulted(access, out)
                         /\ loc' = [loc EXCEPT !.stream = s1, !.err = MkErr(out, Len(lg1))]
                         /\ log' = ReadFailed(state, lg1).log
                         /\ pc' = "returned"
                         /\ state' = ReadFailed(state, lg1).state
    /\ UNCHANGED <<units, task>>

\* The buffer as the comparison finds it: a byte that was allocated and
\* never written has any value, the one the chunk has there (same) or another.
BufMemory(buf, chunk, same) ==
    [j \in DOMAIN buf |->
        IF buf[j] # Uninit THEN buf[j]
        ELSE IF same /\ j <= Len(chunk) THEN chunk[j] ELSE Garbage]

\* verify: access.read(b)? returns Ok(n) with n less than the length of b
\* (std::io::Read::read may return fewer bytes than asked for); verify drops
\* the count, and the rest of b keeps what the buffer held.
VerifyReadShort ==
    /\ pc = "verify_loop"
    /\ access.faults < MaxFaults
    /\ LET s1 == StreamAdvance(loc.stream)
           chunk == StreamGet(s1)
       IN  /\ ~s1.eof
           /\ ~IsAtBadBlock(state)
           /\ \E n \in 0..(Len(chunk) - 1), same \in BOOLEAN :
                LET lg1 == Append(log, Call(state, access, "read", Len(chunk), "short"))
                    data == SubSeq(ReadFile(access, Len(chunk)), 1, n)
                    buf1 == BufAfterRead(BufMemory(loc.buf, chunk, same), data)
                    b == SubSeq(buf1, 1, Len(chunk))
                IN  /\ access' = [Faulted(access, "short") EXCEPT !.pos = @ + n]
                    /\ IF ChunkDiffers(b, chunk)
                       THEN /\ loc' = [loc EXCEPT !.stream = s1, !.buf = buf1,
                                                  !.err = MkErr("mismatch", Len(lg1))]
                            /\ log' = lg1
                            /\ pc' = "returned"
                            /\ UNCHANGED state
                       ELSE /\ loc' = [loc EXCEPT !.stream = s1, !.buf = buf1]
                            /\ state' = Advance(state, Len(chunk))
                            /\ log' = AdvanceLog(lg1, state, Len(chunk))
                            /\ pc' = "verify_loop"
    /\ UNCHANGED <<units, task>>

\* verify: try_seek()? after a block that was passed over
VerifyTrySeek ==
    /\ pc = "verify_seek"
    /\ \E out \in TrySeekOutcomes(state, access) :
         LET r == TrySeek(state, access, log, out)
         IN  /\ state' = r.state
             /\ access' = r.access
             /\ log' = r.log
             /\ IF r.err # NoErr
                THEN /\ loc' = [loc EXCEPT !.err = r.err]
                     /\ pc' = "returned"
                ELSE /\ pc' = "verify_loop"
                     /\ UNCHANGED loc
    /\ UNCHANGED <<units, task>>

\* Mutant of RetryState: at_verification is left as it is.
RetryStateKeepFlag(st, phase) == [st EXCEPT !.retries_left = @ - 1]

\* Mutant of RetryState: the position is rewound for the retry.
RetryStateRewind(st, phase) ==
    [st EXCEPT !.retries_left = @ - 1, !.position = 0,
               !.at_verification = IF phase = "verify" THEN FALSE ELSE @]

\* Mutant of RetryState: the retry of a failed verify is not counted.
RetryStateNoDecrement(st, phase) ==
    [st EXCEPT !.retries_left = IF phase = "verify" THEN @ ELSE @ - 1,
               !.at_verification = IF phase = "verify" THEN FALSE ELSE @]

\* run: the state after a failed phase is given a retry: one retry less, and
\* at_verification reset after a failed verify. The position is left alone.
RetryState(st, phase) ==
    [st EXCEPT !.retries_left = @ - 1,
               !.at_verification = IF phase = "verify" THEN FALSE ELSE @]

\* run: a phase failed and a retry is left: the next attempt starts
PhaseFailedRetry ==
    /\ pc = "returned"
    /\ loc.err # NoErr
    /\ state.retries_left > 0
    /\ LET st1 == RetryState(state, loc.phase)
       IN  /\ state' = st1
           /\ AttemptStart(st1, log \o <<Ev(state, "StageCompleted", 0, loc.err),
                                         Ev(st1, "Retrying", 0, NoErr)>>)
    /\ UNCHANGED <<units, task, access>>


\* Mutant of PhaseFailedBreak: run returns false without publishing Completed.
PhaseFailedBreakSilent ==
    /\ pc = "returned"
    /\ loc.err # NoErr
    /\ state.retries_left = 0
    /\ LET wipe_error == loc.err
       IN  /\ log' = Append(log, Ev(state, "StageCompleted", 0, loc.err))
           /\ loc' = [loc EXCEPT !.wipe_error = wipe_error,
                                 !.result = RunResult(wipe_error)]
    /\ pc' = "done"
    /\ UNCHANGED <<units, task, state, access>>

\* run: a phase failed and no retry is left: publish Completed(Some(err))
\* and return false
PhaseFailedBreak ==
    /\ pc = "returned"
    /\ loc.err # NoErr
    /\ state.retries_left = 0
    /\ LET wipe_error == loc.err
       IN  /\ log' = log \o <<Ev(state, "StageCompleted", 0, loc.err),
                              Ev(state, "Completed", 0, wipe_error)>>
           /\ loc' = [loc EXCEPT !.wipe_error = wipe_error,
                                 !.result = RunResult(wipe_error)]
    /\ pc' = "done"
    /\ UNCHANGED <<units, task, state, access>>

\* run: the fill phase succeeded and the stage is not verified
FillOk ==
    /\ pc = "returned"
    /\ loc.phase = "fill"
    /\ loc.err = NoErr
    /\ ~HaveToVerify(task.verify, loc.i, Len(Stages))
    /\ log' = Append(log, Ev(state, "StageCompleted", 0, NoErr))
    /\ loc' = [loc EXCEPT !.i = @ + 1]
    /\ pc' = "stage"
    /\ UNCHANGED <<units, task, state, access>>

\* Mutant of VerifyStart: the verify phase starts at the start of the device.
VerifyStartFromZero(st, watermark) ==
    [st EXCEPT !.position = 0, !.at_verification = TRUE]

\* run: the state the verify phase starts in: back at the watermark
VerifyStart(st, watermark) ==
    [st EXCEPT !.position = watermark, !.at_verification = TRUE]

\* run: the fill phase succeeded and the verify phase starts at the watermark
FillOkVerify ==
    /\ pc = "returned"
    /\ loc.phase = "fill"
    /\ loc.err = NoErr
    /\ HaveToVerify(task.verify, loc.i, Len(Stages))
    /\ LET st1 == VerifyStart(state, loc.watermark)
       IN  /\ state' = st1
           /\ log' = log \o <<Ev(state, "StageCompleted", 0, NoErr),
                              Ev(st1, "StageStarted", 0, NoErr),
                              Ev(st1, "Progress", st1.position, NoErr)>>
    /\ loc' = [loc EXCEPT !.phase = "verify"]
    /\ pc' = "seek_safe"
    /\ UNCHANGED <<units, task, access>>

\* run: the verify phase succeeded
VerifyOk ==
    /\ pc = "returned"
    /\ loc.phase = "verify"
    /\ loc.err = NoErr
    /\ log' = Append(log, Ev(state, "StageCompleted", 0, NoErr))
    /\ loc' = [loc EXCEPT !.i = @ + 1]
    /\ pc' = "stage"
    /\ UNCHANGED <<units, task, state, access>>

Next ==
    \/ Run
    \/ StageBegin
    \/ StagesDone
    \/ SeekSafeAtEnd
    \/ SeekSafeSkip
    \/ SeekSafeSeek
    \/ FillFlush
    \/ FillSkip
    \/ FillWrite
    \/ FillTrySeek
    \/ VerifyEnd
    \/ VerifySkip
    \/ VerifyRead
    \/ VerifyTrySeek
    \/ PhaseFailedRetry
    \/ PhaseFailedBreak
    \/ FillOk
    \/ FillOkVerify
    \/ VerifyOk

Spec == Init /\ [][Next]_vars

\* The engine on a storage whose reads may come up short.
NextShort ==
    \/ Run
    \/ StageBegin
    \/ StagesDone
    \/ SeekSafeAtEnd
    \/ SeekSafeSkip
    \/ SeekSafeSeek
    \/ FillFlush
    \/ FillSkip
    \/ FillWrite
    \/ FillTrySeek
    \/ VerifyEnd
    \/ VerifySkip
    \/ VerifyRead
    \/ VerifyReadShort
    \/ VerifyTrySeek
    \/ PhaseFailedRetry
    \/ PhaseFailedBreak
    \/ FillOk
    \/ FillOkVerify
    \/ VerifyOk

SpecShort == Init /\ [][NextShort]_vars

\* run is one sequential function: it takes its next step until it returns.
SpecFair == Spec /\ WF_vars(Next)

\* main: the exit status of the wipe command after run returned result
ExitStatus(result) == IF result THEN 0 ELSE 1

\* ------------------------------------------- the construction of a task
\* The arguments of WipeTask::new: block counts around 1 << 32 for each
\* block size (the one before, exactly 1 << 32 without and with a tail, one
\* more), those of test_wipe_task_validation, small ones and the largest.
BlockSizes64 == {1, 3, 8, 4096}

Totals64 ==
    {<<0, 0, 0, 0>>, <<0, 0, 0, 10>>, <<0, 0, 65535, 65535>>,
     <<0, 1, 0, 0>>, <<0, 1, 0, 1>>, <<0, 2, 0, 0>>,
     <<0, 2, 65535, 65535>>, <<0, 3, 0, 0>>, <<0, 3, 0, 2>>, <<0, 3, 0, 3>>,
     <<0, 7, 65535, 65535>>, <<0, 8, 0, 0>>, <<0, 8, 0, 7>>, <<0, 8, 0, 8>>,
     <<0, 16, 0, 0>>, <<0, 4095, 65535, 65535>>, <<0, 4096, 0, 0>>,
     <<0, 4096, 0, 4095>>, <<0, 4096, 0, 4096>>,
     <<65535, 65535, 65535, 65535>>}

InitNew ==
    /\ \E sn \in SchemeNames, v \in VerifyModes, ts \in Totals64, bs \in BlockSizes64 :
         ctor = NewCall(sn, v, ts, bs)
    /\ task = TaskNew("zero", "No", 0, 1)
    /\ state = WipeStateDefault(0, {})
    /\ access = [file |-> <<>>, pos |-> 0, bad_blocks |-> {}, faults |-> 0]
    /\ strm = NoIter
    /\ marker = NoMarker
    /\ parse = NoParse
    /\ status = Running
    /\ pc = "new"
    /\ loc = [i |-> 0, phase |-> "fill", watermark |-> 0, skip_next |-> FALSE,
              stream |-> NoStream, buf |-> <<>>,
              wipe_error |-> NoErr, err |-> NoErr, result |-> FALSE]
    /\ log = <<>>

\* WipeTask::new returns
New ==
    /\ pc = "new"
    /\ ctor' = NewReturned(ctor)
    /\ pc' = IF ctor'.result.ok THEN "new_ok" ELSE "new_err"
    /\ UNCHANGED <<task, state, access, loc, log, status, strm, marker, parse>>

\* The positions the engine takes on a device: the block starts (of which the
\* first two and the last two are drawn) and total_size.
Positions64(total_size, block_size) ==
    LET q == DivU64(total_size, block_size)
        ks == {U64(0), q} \cup (IF q = U64(0) THEN {} ELSE {U64(1), DecU64(q)})
    IN  {MulU64(k, block_size) : k \in ks} \cup {total_size}

\* WipeRun::current_block_number on u64 positions: the quotient as u32
CurrentBlockNumber64(position, block_size) ==
    AsU32(DivU64(position, block_size))

\* The engine of an accepted task asks for the block number at a position.
BlockNumberAt ==
    /\ pc = "new_ok"
    /\ \E p \in Positions64(ctor.result.total_size, ctor.result.block_size) :
         ctor' = [ctor EXCEPT
                    !.at = TRUE,
                    !.position = p,
                    !.index = DivU64(p, ctor.result.block_size),
                    !.block_number = CurrentBlockNumber64(p, ctor.result.block_size)]
    /\ UNCHANGED <<idle, strm, marker, parse>>

NextNew ==
    \/ New
    \/ BlockNumberAt

SpecNew == InitNew /\ [][NextNew]_vars

\* ------------------------------------------------ iterating a stream
\* The streams that are iterated: of a constant stage and of random stages
\* of two seeds, over the sizes 0..MaxTotal in blocks of the sizes the
\* command line accepts, started at 0..MaxStart (at, before and past the end).
MaxTotal == 9
MaxStart == 10
\* How often next() is called again after it returned None.
MaxNones == 2
StreamBlockSizes == {1, 2, 4, 8}
StreamStages == {FillStage(51), RandomStage(1), RandomStage(2)}

\* Two iterations over streams of one stage: a started anywhere, b started
\* at 0 or where a started.
InitStream ==
    /\ \E stg \in StreamStages, ts \in 0..MaxTotal, bs \in StreamBlockSizes,
          o \in 0..MaxStart :
         \E ob \in {0, o} :
            strm = [stage |-> stg, total_size |-> ts, block_size |-> bs,
                    a |-> Iter(stg, ts, bs, o), b |-> Iter(stg, ts, bs, ob)]
    /\ ctor = NewReturned(NewCall("zero", "No", U64(0), 1))
    /\ marker = NoMarker
    /\ parse = NoParse
    /\ status = Running
    /\ task = TaskNew("zero", "No", 0, 1)
    /\ state = WipeStateDefault(0, {})
    /\ access = [file |-> <<>>, pos |-> 0, bad_blocks |-> {}, faults |-> 0]
    /\ pc = "stream"
    /\ loc = [i |-> 0, phase |-> "fill", watermark |-> 0, skip_next |-> FALSE,
              stream |-> NoStream, buf |-> <<>>,
              wipe_error |-> NoErr, err |-> NoErr, result |-> FALSE]
    /\ log = <<>>

\* stream.next() on the first iteration
NextA ==
    /\ pc = "stream"
    /\ strm.a.nones < MaxNones
    /\ strm' = [strm EXCEPT !.a = IterNext(@)]
    /\ UNCHANGED <<idle, ctor, marker, parse>>

\* stream.next() on the second iteration
NextB ==
    /\ pc = "stream"
    /\ strm.b.nones < MaxNones
    /\ strm' = [strm EXCEPT !.b = IterNext(@)]
    /\ UNCHANGED <<idle, ctor, marker, parse>>

NextStream ==
    \/ NextA
    \/ NextB

SpecStream == InitStream /\ [][NextStream]_vars

\* -------------------------------------------------- the wipe command
\* The exit status of a process that panicked.
Panicked == 101

\* main has built the task and the state and is about to open the device.
InitMain == InitAt("main")

\* Mutant of MainOpen: after Fatal the engine is entered all the same.
MainOpenEnters ==
    /\ pc = "main"
    /\ \E out \in {"ok", "io"} :
         LET lg1 == Append(log, Call(state, access, "open", 0, out))
         IN  IF out = "ok"
             THEN /\ log' = lg1
                  /\ pc' = "run"
             ELSE /\ log' = Append(lg1, Ev(state, "Fatal", 0, MkErr(out, Len(lg1))))
                  /\ pc' = "run"
    /\ UNCHANGED <<task, state, access, loc, ctor, strm, marker, parse, status>>

\* main: System::access(device): Ok(access) enters run; Err(err) is handed
\* to the session as Fatal(err) and the process exits with 1.
MainOpen ==
    /\ pc = "main"
    /\ \E out \in {"ok", "io"} :
         LET lg1 == Append(log, Call(state, access, "open", 0, out))
         IN  IF out = "ok"
             THEN /\ log' = lg1
                  /\ pc' = "run"
                  /\ UNCHANGED status
             ELSE /\ log' = Append(lg1, Ev(state, "Fatal", 0, MkErr(out, Len(lg1))))
                  /\ status' = 1
                  /\ pc' = "exited"
    /\ UNCHANGED <<task, state, access, loc, ctor, strm, marker, parse>>

\* run publishes Started to the console session: without --yes it asks for
\* a confirmation, and exits with 0 when it is not given.
RunMain ==
    \/ Run
    \/ /\ pc = "run"
       /\ log' = Append(log, Ev(state, "Started", 0, NoErr))
       /\ status' = 0
       /\ pc' = "exited"
       /\ UNCHANGED <<task, state, access, loc, ctor, strm, marker, parse>>

\* task.total_size / task.block_size of the session's summary
TotalBlocks == task.total_size \div task.block_size

\* run publishes Completed(None) to the console session, which prints the
\* summary: bad_blocks * 100 / total_blocks panics when total_blocks is 0.
StagesDoneMain ==
    IF TotalBlocks # 0
    THEN StagesDone
    ELSE /\ pc = "stage"
         /\ loc.i >= Len(Stages)
         /\ log' = Append(log, Ev(state, "Completed", 0, loc.wipe_error))
         /\ status' = Panicked
         /\ pc' = "exited"
         /\ UNCHANGED <<task, state, access, loc, ctor, strm, marker, parse>>

\* main: run returned: exit(1) if it returned false, else main returns Ok(())
MainReturn ==
    /\ pc = "done"
    /\ status' = ExitStatus(loc.result)
    /\ pc' = "exited"
    /\ UNCHANGED <<task, state, access, loc, log, ctor, strm, marker, parse>>

NextMain ==
    \/ MainOpen
    \/ RunMain
    \/ StageBegin
    \/ StagesDoneMain
    \/ SeekSafeAtEnd
    \/ SeekSafeSkip
    \/ SeekSafeSeek
    \/ FillFlush
    \/ FillSkip
    \/ FillWrite
    \/ FillTrySeek
    \/ VerifyEnd
    \/ VerifySkip
    \/ VerifyRead
    \/ VerifyTrySeek
    \/ PhaseFailedRetry
    \/ PhaseFailedBreak
    \/ FillOk
    \/ FillOkVerify
    \/ VerifyOk
    \/ MainReturn

SpecMain == InitMain /\ [][NextMain]_vars

\* --------------------------------------------- parsing a block size
\* The arguments of --blocksize: a number (those of the parser's tests, the
\* smallest ones, and powers of two and their successors up to 2^64), a
\* space or none, and what follows.
ArgNumbers ==
    {<<>>,
     <<"0">>,
     <<"1">>,
     <<"2">>,
     <<"3">>,
     <<"1", "2", "8">>,
     <<"4", "0", "9", "5">>,
     <<"4", "0", "9", "6">>,
     <<"-", "1", "2", "8">>,
     <<"4", "0", "9", "6", ".", "0", "0", "0">>,
     <<"x", "x", "x">>,
     <<"1", "7", "5", "9", "2", "1", "8", "6", "0", "4", "4", "4", "1", "6">>,
     <<"1", "7", "5", "9", "2", "1", "8", "6", "0", "4", "4", "4", "1", "7">>,
     <<"1", "8", "0", "1", "4", "3", "9", "8", "5", "0", "9", "4", "8", "1", "9", "8", "4">>,
     <<"1", "8", "0", "1", "4", "3", "9", "8", "5", "0", "9", "4", "8", "1", "9", "8", "5">>,
     <<"9", "2", "2", "3", "3", "7", "2", "0", "3", "6", "8", "5", "4", "7", "7", "5", "8", "0", "8">>,
     <<"1", "8", "4", "4", "6", "7", "4", "4", "0", "7", "3", "7", "0", "9", "5", "5", "1", "6", "1", "5">>,
     <<"1", "8", "4", "4", "6", "7", "4", "4", "0", "7", "3", "7", "0", "9", "5", "5", "1", "6", "1", "6">>}

ArgSpaces == {<<>>, <<" ">>}

ArgUnits == {<<>>, <<"k">>, <<"K">>, <<"m">>, <<"M">>, <<"k", "b">>, <<"M", "B">>, <<"g">>, <<"b">>, <<"k", "k">>}

Builds == {"debug", "release"}

InitParse ==
    /\ \E n \in ArgNumbers, sp \in ArgSpaces, u \in ArgUnits, b \in Builds :
         parse = ParseCall(n \o sp \o u, b)
    /\ ctor = NewReturned(NewCall("zero", "No", U64(0), 1))
    /\ strm = NoIter
    /\ marker = NoMarker
    /\ status = Running
    /\ task = TaskNew("zero", "No", 0, 1)
    /\ state = WipeStateDefault(0, {})
    /\ access = [file |-> <<>>, pos |-> 0, bad_blocks |-> {}, faults |-> 0]
    /\ pc = "parse"
    /\ loc = [i |-> 0, phase |-> "fill", watermark |-> 0, skip_next |-> FALSE,
              stream |-> NoStream, buf |-> <<>>,
              wipe_error |-> NoErr, err |-> NoErr, result |-> FALSE]
    /\ log = <<>>

\* parse_block_size returns (or panics)
ParseReturn ==
    /\ pc = "parse"
    /\ parse' = ParseReturned(parse)
    /\ pc' = "parsed"
    /\ UNCHANGED <<task, state, access, loc, log, status, ctor, strm, marker>>

NextParse ==
    \/ ParseReturn

SpecParse == InitParse /\ [][NextParse]_vars

\* ---------------------------------------------------- marking blocks
\* The mark calls made on one marker.
MaxMarks == 5

\* The marker is new (RoaringBlockMarker::new), or has been marked at every
\* index but those of MarkIndices.
InitMarker ==
    /\ \E r \in BOOLEAN : marker = Marker([StoreNew EXCEPT !.rest = r])
    /\ ctor = NewReturned(NewCall("zero", "No", U64(0), 1))
    /\ strm = NoIter
    /\ parse = NoParse
    /\ status = Running
    /\ task = TaskNew("zero", "No", 0, 1)
    /\ state = WipeStateDefault(0, {})
    /\ access = [file |-> <<>>, pos |-> 0, bad_blocks |-> {}, faults |-> 0]
    /\ pc = "marker"
    /\ loc = [i |-> 0, phase |-> "fill", watermark |-> 0, skip_next |-> FALSE,
              stream |-> NoStream, buf |-> <<>>,
              wipe_error |-> NoErr, err |-> NoErr, result |-> FALSE]
    /\ log = <<>>

\* marker.mark(i)
MarkCall ==
    /\ pc = "marker"
    /\ marker.calls < MaxMarks
    /\ \E i \in MarkIndices : marker' = Mark(marker, i)
    /\ UNCHANGED <<idle, ctor, strm, parse>>

NextMarker ==
    \/ MarkCall

SpecMarker == InitMarker /\ [][NextMarker]_vars

\* ============================================================ claims
\* ---------------------------------------------------- reading the log
IsEv(e) == e.k = "ev"
IsCall(e) == e.k = "call"

\* The events published so far, in order.
Events == SelectSeq(log, IsEv)

IsNamed(e, name) == e.k = "ev" /\ e.name = name
IsFailure(e) == IsNamed(e, "StageCompleted") /\ e.err # NoErr
IsSuccess(e) == IsNamed(e, "StageCompleted") /\ e.err = NoErr

\* The block index of a byte position, as the claims state it.
BlockOf(p) == p \div task.block_size

LastStageIndex == Len(Stages) - 1

\* retries_left as the caller handed it in (Started is published before any change).
InitialRetries == IF Len(log) = 0 THEN state.retries_left ELSE log[1].retries_left

Count(es, name) == Cardinality({i \in 1..Len(es) : IsNamed(es[i], name)})

\* -------------------------------------------------------------- C2
\* The automaton of the event grammar
\*   Started ( StageStarted Progress {Progress | MarkBlockAsBad}*
\*             StageCompleted [Retrying] )* Completed
\* q0 nothing yet; idle after Started or StageCompleted(None); failed after
\* StageCompleted(Some); opened after StageStarted; span inside a span;
\* retry after Retrying; closed after Completed; bad otherwise.
Delta(q, es, n) ==
    LET e == es[n]
    IN  CASE q = "q0" /\ IsNamed(e, "Started") -> "idle"
          [] q \in {"idle", "failed", "retry"} /\ IsNamed(e, "StageStarted") -> "opened"
          [] q = "opened" /\ IsNamed(e, "Progress")
                /\ e.arg = e.position /\ e.position = es[n - 1].position -> "span"
          [] q = "span" /\ (IsNamed(e, "Progress") \/ IsNamed(e, "MarkBlockAsBad")) -> "span"
          [] q = "span" /\ IsSuccess(e) -> "idle"
          [] q = "span" /\ IsFailure(e) -> "failed"
          [] q = "failed" /\ IsNamed(e, "Retrying") -> "retry"
          [] q \in {"idle", "failed"} /\ IsNamed(e, "Completed") -> "closed"
          [] OTHER -> "bad"

RECURSIVE Automaton(_, _)
Automaton(es, n) == IF n = 0 THEN "q0" ELSE Delta(Automaton(es, n - 1), es, n)

\* C2: the events published so far are a prefix of the grammar Started
\* ( StageStarted Progress(position) {Progress | MarkBlockAsBad}*
\* StageCompleted(r) [Retrying] )* Completed(r), Retrying only directly after a
\* StageCompleted(Some(_)) and directly before a StageStarted, and the run has
\* returned exactly when Completed was published (once, and last).
C2_EventGrammar ==
    LET q == Automaton(Events, Len(Events))
    IN  /\ q # "bad"
        /\ (pc = "done") <=> (q = "closed")
        /\ Count(Events, "Started") <= 1
        /\ Count(Events, "Completed") <= 1

\* A run with a bad block, a retry and two stages has returned.
C2_Witness ==
    /\ pc = "done"
    /\ Count(Events, "Retrying") >= 1
    /\ Count(Events, "MarkBlockAsBad") >= 1
    /\ state.stage = 1

\* -------------------------------------------------------------- C3
\* C3: when run has returned, its last event is Completed; it returned true
\* iff that is Completed(None), and false iff it is Completed(Some(e)), where
\* e is the very error of the StageCompleted(Some(e)) published directly
\* before it (so no StageCompleted(None) lies between the failure and the end).
C3_ResultAndCompleted ==
    pc = "done" =>
        LET es == Events
            n == Len(es)
        IN  /\ n >= 2
            /\ IsNamed(es[n], "Completed")
            /\ loc.result <=> (es[n].err = NoErr)
            /\ ~loc.result <=> (es[n].err # NoErr)
            /\ es[n].err # NoErr =>
                  /\ IsFailure(es[n - 1])
                  /\ es[n - 1].err = es[n].err
            /\ es[n].err = NoErr => ~IsFailure(es[n - 1])

\* run returned false after an earlier failure that was retried: the error
\* of Completed is the one of the last failure, not of the first.
C3_Witness ==
    /\ pc = "done"
    /\ ~loc.result
    /\ Count(Events, "Retrying") >= 1
    /\ Events[Len(Events)].err = Events[Len(Events) - 1].err
    /\ \E i \in 1..(Len(Events) - 2) :
          IsFailure(Events[i]) /\ Events[i].err # Events[Len(Events)].err

\* -------------------------------------------------------------- C4
\* C4: every StageCompleted(Some(e)) published with retries_left > 0 is
\* followed by Retrying with retries_left one less and by a StageStarted of
\* the same stage; one published with retries_left = 0 is followed by
\* Completed(Some(e)). retries_left never increases from event to event, the
\* number of Retrying events is the initial retries_left minus the current
\* one, and run returns false only with retries_left = 0.
C4_Retries ==
    LET es == Events
        n == Len(es)
    IN  /\ \A i \in 1..n : IsFailure(es[i]) =>
              IF es[i].retries_left > 0
              THEN /\ n >= i + 2
                   /\ IsNamed(es[i + 1], "Retrying")
                   /\ es[i + 1].retries_left = es[i].retries_left - 1
                   /\ IsNamed(es[i + 2], "StageStarted")
                   /\ es[i + 2].stage = es[i].stage
                   /\ es[i + 2].retries_left = es[i].retries_left - 1
              ELSE /\ n = i + 1
                   /\ IsNamed(es[i + 1], "Completed")
                   /\ es[i + 1].err = es[i].err
        /\ \A i \in 1..n : IsNamed(es[i], "Retrying") => i > 1 /\ IsFailure(es[i - 1])
        /\ \A i \in 2..n : es[i].retries_left <= es[i - 1].retries_left
        /\ n >= 1 => es[n].retries_left = state.retries_left
        /\ Count(es, "Retrying") = InitialRetries - state.retries_left
        /\ (pc = "done" /\ ~loc.result) => state.retries_left = 0

\* The only retry was used up in the first stage, and a failure in the
\* second stage ended the run: retries_left was not reset between the stages.
C4_Witness ==
    /\ pc = "done"
    /\ ~loc.result
    /\ InitialRetries = 1
    /\ state.stage = 1
    /\ \E i \in 1..Len(Events) : IsNamed(Events[i], "Retrying") /\ Events[i].stage = 0

\* -------------------------------------------------------------- C1
\* The byte at absolute offset o (s.position <= o < s.total_size) of the
\* chunks the stream s yields.
RECURSIVE StreamByte(_, _)
StreamByte(s, o) ==
    LET s1 == StreamAdvance(s)
    IN  IF o < s1.position
        THEN StreamGet(s1)[o - s.position + 1]
        ELSE StreamByte(s1, o)

\* The bytes the streams of the last stage produce for offset o: the engine
\* builds the stream of an attempt at the block start the attempt resumes at.
LastStageBytes(o) ==
    {StreamByte(StageStream(Stages[Len(Stages)], task.total_size,
                            task.block_size, k * task.block_size), o) :
        k \in 0..BlockOf(o)}

\* The byte offsets of block b.
BlockOffsets(b) ==
    {o \in 0..(task.total_size - 1) : BlockOf(o) = b}

\* ceil(total_size / block_size) of the task.
TaskBlocks == NumBlocks(task.total_size, task.block_size)

VerifyRequired(i) ==
    task.verify = "All" \/ (task.verify = "Last" /\ i = LastStageIndex)

\* C5: a StageStarted with at_verification = true is published for stage i
\* only if verify = All, or verify = Last and i is the last stage, and only
\* directly after the StageCompleted(None) of the fill phase of the same
\* stage; a stage that requires verification is left (for the next stage or
\* for Completed(None)) only directly after the StageCompleted(None) of a
\* verify phase; access.read is called only in a verify phase, and never
\* with Verify::No.
C5_VerifyWhenRequired ==
    LET es == Events
        n == Len(es)
    IN  /\ \A k \in 1..n : (IsNamed(es[k], "StageStarted") /\ es[k].at_verification) =>
              /\ VerifyRequired(es[k].stage)
              /\ k > 1
              /\ IsSuccess(es[k - 1])
              /\ ~es[k - 1].at_verification
              /\ es[k - 1].stage = es[k].stage
        /\ \A k \in 3..n :
              (\/ IsNamed(es[k], "Completed") /\ es[k].err = NoErr
               \/ IsNamed(es[k], "StageStarted") /\ es[k].stage # es[k - 1].stage) =>
                  /\ IsSuccess(es[k - 1])
                  /\ es[k - 1].at_verification <=> VerifyRequired(es[k - 1].stage)
        /\ \A j \in 1..Len(log) : (IsCall(log[j]) /\ log[j].name = "read") =>
              /\ log[j].at_verification
              /\ task.verify # "No"
              /\ VerifyRequired(log[j].stage)

\* With Verify::Last and two stages the run succeeded: the first stage was
\* left after its fill, the second after its verify.
C5_Witness ==
    /\ pc = "done"
    /\ loc.result
    /\ task.verify = "Last"
    /\ Len(Stages) = 2
    /\ \E j \in 1..Len(log) : IsCall(log[j]) /\ log[j].name = "read" /\ log[j].stage = 1
    /\ \E j \in 1..Len(log) : IsCall(log[j]) /\ log[j].name = "write" /\ log[j].stage = 0

\* -------------------------------------------------------------- C6
\* The last event published before entry i of the log.
PrevEvent(i) ==
    CHOOSE j \in 1..(i - 1) :
        IsEv(log[j]) /\ \A k \in (j + 1)..(i - 1) : ~IsEv(log[k])

IsBadWrite(e) == IsCall(e) /\ e.name = "write" /\ e.out \in {"io", "bad"}

\* C6: when access.write reports a bad block at position p, then p is a
\* block start, the event before it was Progress(p), the engine publishes
\* MarkBlockAsBad(p) (the byte offset) with block p / block_size marked, then
\* Progress(min(p + chunk length, total_size)) with retries_left unchanged,
\* and goes on with the fill: what follows is not the end of the phase.
C6_BadBlockOnWrite ==
    \A i \in 1..Len(log) : IsBadWrite(log[i]) =>
        LET p == log[i].position
            next == Min(p + log[i].arg, task.total_size)
        IN  /\ p % task.block_size = 0
            /\ p < task.total_size
            /\ ~log[i].at_verification
            /\ IsNamed(log[PrevEvent(i)], "Progress")
            /\ log[PrevEvent(i)].arg = p
            /\ Len(log) >= i + 2
            /\ IsNamed(log[i + 1], "MarkBlockAsBad")
            /\ log[i + 1].arg = p
            /\ log[i + 1].position = p
            /\ BlockOf(p) \in log[i + 1].bad_blocks
            /\ BlockOf(p) \notin log[i].bad_blocks
            /\ IsNamed(log[i + 2], "Progress")
            /\ log[i + 2].arg = next
            /\ log[i + 2].position = next
            /\ log[i + 2].retries_left = log[i].retries_left
            /\ log[i + 2].bad_blocks = log[i].bad_blocks \cup {BlockOf(p)}
            /\ Len(log) >= i + 3 =>
                  ~(IsEv(log[i + 3]) /\
                    log[i + 3].name \in {"StageCompleted", "Retrying", "Completed", "StageStarted"})

\* A write at a block start p > 0 reported a bad block, and the block after
\* it was then written.
C6_Witness ==
    \E i \in 1..Len(log) : \E j \in (i + 1)..Len(log) :
        /\ IsBadWrite(log[i])
        /\ log[i].out = "io"
        /\ log[i].position > 0
        /\ IsCall(log[j]) /\ log[j].name = "write" /\ log[j].out = "ok"
        /\ log[j].position = log[i].position + task.block_size
        /\ log[j].stage = log[i].stage
        /\ \A k \in i..j : ~IsNamed(log[k], "StageCompleted")

\* -------------------------------------------------------------- C7
IsTransfer(e) == IsCall(e) /\ e.name \in {"write", "read"}

\* C7: at every access.write and access.read the block of state.position is
\* not marked, and was not marked at any earlier point of the run (the marks
\* of the caller are those of the Started event); in a verify phase a block
\* that is marked when the position reaches it, or that a seek marks there,
\* is passed over by the next Progress without any call in between.
C7_MarkedBlocksUntouched ==
    /\ \A j \in 1..Len(log) : IsTransfer(log[j]) =>
          \A i \in 1..j : BlockOf(log[j].position) \notin log[i].bad_blocks
    /\ \A i \in 1..(Len(log) - 1) :
          (/\ log[i].at_verification
           /\ \/ IsNamed(log[i], "Progress")
              \/ IsNamed(log[i], "MarkBlockAsBad")
           /\ log[i].position < task.total_size
           /\ BlockOf(log[i].position) \in log[i].bad_blocks) =>
              /\ IsNamed(log[i + 1], "Progress")
              /\ log[i + 1].arg = Min(log[i].position + task.block_size, task.total_size)

\* A block the caller marked was passed over by the fill and the verify of
\* both stages of a run that read and wrote the other blocks and succeeded.
C7_Witness ==
    /\ pc = "done"
    /\ loc.result
    /\ state.stage = 1
    /\ log[1].bad_blocks # {}
    /\ \E j \in 1..Len(log) : IsCall(log[j]) /\ log[j].name = "read"
    /\ \E i \in 1..(Len(log) - 1) :
          /\ IsNamed(log[i], "Progress") /\ log[i].at_verification
          /\ BlockOf(log[i].position) \in log[1].bad_blocks
          /\ log[i].position < task.total_size

\* -------------------------------------------------------- C8 and C9
\* The Retrying events that follow a failed verify phase.
IsVerifyRetry(i) ==
    /\ IsNamed(log[i], "Retrying")
    /\ i > 1
    /\ IsFailure(log[i - 1])
    /\ log[i - 1].at_verification

\* C8 as claimed: after a failed verify phase that is retried, the position
\* is rewound to 0 and the re-fill starts at position 0.
C8_RewindsToZero ==
    \A i \in 1..Len(log) : IsVerifyRetry(i) =>
        /\ log[i + 1].position = 0
        /\ log[i + 2].arg = 0

\* The first entry of the span that the StageCompleted at entry i ends.
SpanStart(i) ==
    CHOOSE j \in 1..(i - 1) :
        IsNamed(log[j], "StageStarted") /\
        \A k \in (j + 1)..(i - 1) : ~IsNamed(log[k], "StageStarted")

\* C8 amended: after a verify phase failed at position p (the position of
\* the seek or read it failed on, at or after the position it started at)
\* and is retried, the engine publishes Retrying and leaves the position at
\* p: the next attempt's StageStarted and first Progress are at p, so the
\* re-fill starts at p and not at 0 unless p = 0.
C8_VerifyRetryResumesAtFailure ==
    \A i \in 1..Len(log) : IsVerifyRetry(i) =>
        LET p == log[i - 1].position
        IN  /\ i > 2
            /\ IsCall(log[i - 2])
            /\ log[i - 2].name \in {"seek", "read"}
            /\ log[i - 2].position = p
            /\ p >= log[SpanStart(i - 1)].position
            /\ log[i].position = p
            /\ ~log[i].at_verification
            /\ Len(log) >= i + 2
            /\ IsNamed(log[i + 1], "StageStarted")
            /\ log[i + 1].position = p
            /\ IsNamed(log[i + 2], "Progress")
            /\ log[i + 2].arg = p

\* A verify phase failed past the first block and was retried.
C8_Witness ==
    \E i \in 1..Len(log) :
        /\ IsVerifyRetry(i)
        /\ log[i - 1].position > 0
        /\ Len(log) >= i + 2
        /\ log[i + 2].arg > 0

\* The entry that ends the span entry i lies in (past the log: none yet).
SpanEnd(i) ==
    LET ends == {j \in (i + 1)..Len(log) : IsNamed(log[j], "StageCompleted")}
    IN  IF ends = {} THEN Len(log) + 1
        ELSE CHOOSE j \in ends : \A k \in ends : j <= k

\* C9: when a phase fails at position p and is retried, the next attempt
\* resumes at p: Retrying is followed by StageStarted and Progress(p), the
\* re-fill writes only at positions and storage offsets >= p, and the verify
\* phase of that attempt starts with Progress(p) as well.
C9_RetryResumesAtPosition ==
    \A i \in 1..Len(log) : IsNamed(log[i], "Retrying") =>
        LET p == log[i - 1].position
            fin == SpanEnd(i)
        IN  /\ IsFailure(log[i - 1])
            /\ Len(log) >= i + 2
            /\ IsNamed(log[i + 1], "StageStarted")
            /\ ~log[i + 1].at_verification
            /\ IsNamed(log[i + 2], "Progress")
            /\ log[i + 2].arg = p
            /\ \A j \in (i + 1)..(fin - 1) :
                  /\ log[j].position >= p
                  /\ (IsCall(log[j]) /\ log[j].name = "write") => log[j].offs >= p
            /\ (/\ fin + 2 <= Len(log)
                /\ IsSuccess(log[fin])
                /\ IsNamed(log[fin + 1], "StageStarted")
                /\ log[fin + 1].at_verification) =>
                  /\ IsNamed(log[fin + 2], "Progress")
                  /\ log[fin + 2].arg = p
                  /\ log[fin + 2].position = p
                  /\ \A j \in (fin + 2)..(SpanEnd(fin + 1) - 1) : log[j].position >= p

\* A fill phase failed past the first block and was retried; the re-fill
\* wrote from there and the verify phase of that attempt read from there.
C9_Witness ==
    \E i \in 1..Len(log) :
        /\ IsNamed(log[i], "Retrying")
        /\ ~log[i - 1].at_verification
        /\ log[i - 1].position > 0
        /\ log[i - 1].position < task.total_size
        /\ \E j \in (i + 1)..Len(log) :
              IsCall(log[j]) /\ log[j].name = "write" /\ log[j].out = "ok"
        /\ \E j \in (i + 1)..Len(log) :
              /\ IsCall(log[j]) /\ log[j].name = "read" /\ log[j].out = "ok"
              /\ log[j].position = log[i - 1].position
              /\ \A k \in i..j : ~IsFailure(log[k])

\* ------------------------------------------------------------- C10
\* C10: at every published event, state.position <= total_size and
\* state.position is a multiple of block_size or equal to total_size.
C10_PositionInRange ==
    \A i \in 1..Len(log) : IsEv(log[i]) =>
        /\ log[i].position <= task.total_size
        /\ \/ log[i].position % task.block_size = 0
           \/ log[i].position = task.total_size

\* An event was published at the tail of a device whose size is not a
\* multiple of the block size, after the last (shorter) chunk was written.
C10_Witness ==
    /\ task.total_size % task.block_size # 0
    /\ \E i \in 2..Len(log) :
          /\ IsNamed(log[i], "Progress")
          /\ log[i].position = task.total_size
          /\ IsCall(log[i - 1]) /\ log[i - 1].name = "write" /\ log[i - 1].out = "ok"
          /\ log[i - 1].arg < task.block_size

\* ------------------------------------------------------------- C11
\* The StageStarted that opens the span event k of es lies in.
EvSpanStart(es, k) ==
    CHOOSE j \in 1..k :
        IsNamed(es[j], "StageStarted") /\
        \A m \in (j + 1)..k : ~IsNamed(es[m], "StageStarted")

\* C11: every Progress carries state.position at its publication, at most
\* total_size; within a span (StageStarted .. StageCompleted) the position
\* at successive events, and so the payload of successive Progress events,
\* never goes down; a span starts at 0 for a new stage, at the watermark
\* (the position its attempt started at) for a verify phase, and where the
\* failed phase stopped for a retry, and its first Progress is that position.
C11_ProgressMonotone ==
    LET es == Events
        n == Len(es)
    IN  /\ \A k \in 1..n : IsNamed(es[k], "Progress") =>
              /\ es[k].arg = es[k].position
              /\ es[k].arg <= task.total_size
        /\ \A k \in 2..n :
              es[k].name \in {"Progress", "MarkBlockAsBad", "StageCompleted"} =>
                  /\ es[k - 1].name \in {"StageStarted", "Progress", "MarkBlockAsBad"}
                  /\ es[k - 1].position <= es[k].position
        /\ \A k \in 2..n : IsNamed(es[k], "StageStarted") =>
              /\ es[k].position =
                    IF IsNamed(es[k - 1], "Retrying") THEN es[k - 2].position
                    ELSE IF es[k].at_verification
                    THEN es[EvSpanStart(es, k - 1)].position
                    ELSE 0
              /\ k < n => IsNamed(es[k + 1], "Progress") /\ es[k + 1].arg = es[k].position

\* A fill that resumed past the first block went to the end, and the Progress
\* of its verify phase went down to the watermark of that attempt.
C11_Witness ==
    LET es == Events
    IN  \E k \in 3..(Len(es) - 1) :
            /\ IsNamed(es[k], "StageStarted")
            /\ es[k].at_verification
            /\ es[k].position > 0
            /\ es[k - 1].position = task.total_size
            /\ es[k + 1].arg < es[k - 2].arg
            /\ IsNamed(es[k - 2], "Progress")

\* ------------------------------------------------------------- C12
\* Where run is inside fill or verify.
InPhase == pc \in {"seek_safe", "fill_loop", "fill_seek", "verify_loop", "verify_seek", "returned"}

\* C12: a StageStarted is published with at_verification = true exactly when
\* it opens a verify phase (it follows the StageCompleted(None) of the fill
\* of the same stage), and with false when it opens a fill phase (first
\* attempt of a stage or after Retrying); Retrying is published with the
\* flag false, also after a failed verify; the flag does not change inside a
\* span, equals "the phase is verify" while fill or verify runs, writes
\* happen with the flag false and reads with the flag true.
C12_VerificationFlag ==
    LET es == Events
        n == Len(es)
    IN  /\ \A k \in 2..n : IsNamed(es[k], "StageStarted") =>
              (es[k].at_verification <=>
                  (/\ IsSuccess(es[k - 1])
                   /\ es[k - 1].stage = es[k].stage))
        /\ \A k \in 2..n : IsNamed(es[k], "Retrying") =>
              /\ ~es[k].at_verification
              /\ k < n => IsNamed(es[k + 1], "StageStarted") /\ ~es[k + 1].at_verification
        /\ \A k \in 2..n :
              es[k].name \in {"Progress", "MarkBlockAsBad", "StageCompleted"} =>
                  es[k].at_verification = es[k - 1].at_verification
        /\ InPhase => (state.at_verification <=> loc.phase = "verify")
        /\ \A j \in 1..Len(log) : IsCall(log[j]) =>
              /\ log[j].name = "write" => ~log[j].at_verification
              /\ log[j].name = "read" => log[j].at_verification

\* A verify phase failed and was retried; the attempt after it ran its fill
\* with the flag false and its verify with the flag true.
C12_Witness ==
    LET es == Events
    IN  \E k \in 2..Len(es) : \E m \in (k + 1)..Len(es) :
            /\ IsNamed(es[k], "Retrying")
            /\ IsFailure(es[k - 1])
            /\ es[k - 1].at_verification
            /\ IsNamed(es[m], "StageStarted")
            /\ es[m].at_verification
            /\ es[m].stage = es[k].stage

\* ------------------------------------------------------------- C13
\* (2^32 + 1) * b for a block size b < 2^16: the smallest total_size whose
\* block count floor(total_size / b) is more than 2^32.
FirstRefused(b) == <<0, b, 0, b>>

\* C13: WipeTask::new with block_size > 0 returns an error iff
\* floor(total_size / block_size) > 2^32, which is total_size >=
\* (2^32 + 1) * block_size, and before any I/O; otherwise it returns a task
\* holding exactly the given scheme, verify mode, total_size and block_size.
C13_NewValidates ==
    (ctor.returned /\ pc \in {"new_ok", "new_err"}) =>
        /\ ctor.block_size > 0
        /\ ~ctor.result.ok <=>
              ~GreaterU64(FirstRefused(ctor.block_size), ctor.total_size)
        /\ ctor.result.ok =>
              /\ ctor.result.scheme = ctor.scheme
              /\ ctor.result.verify = ctor.verify
              /\ ctor.result.total_size = ctor.total_size
              /\ ctor.result.block_size = ctor.block_size
        /\ log = <<>>
        /\ access.pos = 0

\* A device of exactly 2^32 blocks of 8 bytes was accepted.
C13_Witness ==
    /\ pc = "new_ok"
    /\ ctor.returned
    /\ ctor.block_size = 8
    /\ ctor.total_size = <<0, 8, 0, 0>>

\* ------------------------------------------------------------- C14
\* C14 as claimed: for every accepted task and every position the engine
\* can reach, position / block_size fits in 32 bits: the block number the
\* engine computes is the index without truncation.
C14_IndexFits ==
    (pc = "new_ok" /\ ctor.at) => ctor.block_number = ctor.index

\* A block of an accepted device (its start is below total_size) whose index
\* does not fit: its block number is that of block 0.
C14_Witness ==
    /\ pc = "new_ok"
    /\ ctor.at
    /\ GreaterU64(ctor.total_size, ctor.position)
    /\ ctor.index = Shl32
    /\ ctor.block_number = U64(0)

\* ------------------------------------------------------------- C15
\* The run is one on a device where every write reports a bad block, and
\* nothing else went wrong: every block start is a bad position, the marker
\* was empty at the start and no other call has failed.
AllBadRun ==
    /\ TaskBlocks > 0
    /\ access.bad_blocks = {b * task.block_size : b \in 0..(TaskBlocks - 1)}
    /\ access.faults = 0
    /\ Len(log) > 0 => log[1].bad_blocks = {}
    /\ Len(log) = 0 => state.bad_blocks = {}

\* The MarkBlockAsBad events published so far.
MarkEvents == SelectSeq(log, LAMBDA e : IsNamed(e, "MarkBlockAsBad"))

C15_AllBadState ==
    AllBadRun =>
        /\ \A o \in DOMAIN access.file : access.file[o] = InitByte
        /\ \A j \in 1..Len(log) : IsCall(log[j]) =>
              /\ log[j].name # "read"
              /\ log[j].name = "write" => log[j].out = "bad"
              /\ log[j].stage = 0 /\ ~log[j].at_verification
        /\ \A j \in 1..Len(log) : ~IsFailure(log[j]) /\ ~IsNamed(log[j], "Retrying")
        /\ \A j \in 1..Len(MarkEvents) :
              /\ MarkEvents[j].arg = (j - 1) * task.block_size
              /\ MarkEvents[j].stage = 0
              /\ ~MarkEvents[j].at_verification
        /\ \A j \in 1..Len(log) : IsSuccess(log[j]) =>
              /\ log[j].bad_blocks = 0..(TaskBlocks - 1)
              /\ log[j].position = task.total_size
        /\ pc = "done" =>
              /\ loc.result
              /\ state.bad_blocks = 0..(TaskBlocks - 1)
              /\ Len(MarkEvents) = TaskBlocks
              /\ \A i \in 0..LastStageIndex :
                    \E j \in 1..Len(log) :
                        IsSuccess(log[j]) /\ log[j].stage = i /\
                        (log[j].at_verification <=> VerifyRequired(i))

\* C15: on a device where every write reports a bad block, no byte of the
\* storage is modified, no phase fails, MarkBlockAsBad is published exactly
\* once per block start in ascending order (all in the first fill), no read
\* is made, later fills and the verify phases make no storage call at all,
\* and the run terminates: it returns true with the marker holding exactly
\* the indices 0 .. ceil(total_size / block_size) - 1.
C15_AllBadDevice ==
    /\ [](C15_AllBadState)
    /\ [](AllBadRun => <>(pc = "done" \/ ~AllBadRun))

\* A run of two stages with all phases verified on such a device of three
\* blocks returned.
C15_Witness ==
    /\ AllBadRun
    /\ pc = "done"
    /\ loc.result
    /\ TaskBlocks = 3
    /\ Len(Stages) = 2
    /\ task.verify = "All"
    /\ Len(MarkEvents) = 3

\* ------------------------------------------------------------- C16
\* Entry c of the log is a storage call of a fill phase that failed with an
\* error the engine does not take for a bad block, with no retry left.
IsFillFault(c) ==
    /\ IsCall(log[c])
    /\ ~log[c].at_verification
    /\ log[c].retries_left = 0
    /\ \/ log[c].name \in {"seek", "write"} /\ log[c].out = "other"
       \/ log[c].name = "flush" /\ log[c].out # "ok"

\* What follows the fill fault at entry c: nothing yet (fill is returning
\* the error), or StageCompleted(Some(e)) and Completed(Some(e)) with the
\* error of that call, and run returned false with the position unchanged.
FaultEndsRun(c) ==
    \/ Len(log) = c /\ pc = "returned" /\ loc.err = MkErr(log[c].out, c)
    \/ /\ Len(log) = c + 2
       /\ IsFailure(log[c + 1])
       /\ log[c + 1].err = MkErr(log[c].out, c)
       /\ IsNamed(log[c + 2], "Completed")
       /\ log[c + 2].err = log[c + 1].err
       /\ pc = "done"
       /\ ~loc.result
       /\ state.position = log[c].position
       /\ log[c + 1].position = log[c].position

\* The blocks written in the phase entry c lies in, up to entry c.
WrittenInPhase(c) ==
    {BlockOf(log[j].position) : j \in
        {j \in SpanStart(c)..c :
            IsCall(log[j]) /\ log[j].name = "write" /\ log[j].out = "ok"}}

\* C16 as claimed, for a failed write: the run ends as above with the
\* position at the start of the block whose write failed, and exactly the
\* blocks before that position were written in this phase.
C16_BlocksBeforeWritten ==
    \A c \in 1..Len(log) : (IsFillFault(c) /\ log[c].name = "write") =>
        /\ FaultEndsRun(c)
        /\ log[c].position % task.block_size = 0
        /\ WrittenInPhase(c) =
              {b \in 0..(TaskBlocks - 1) : b * task.block_size < log[c].position}

\* The bytes the streams of stage i (from 0) produce for offset o.
StageBytes(i, o) ==
    {StreamByte(StageStream(Stages[i + 1], task.total_size,
                            task.block_size, k * task.block_size), o) :
        k \in 0..BlockOf(o)}

\* C16 amended: if a write, seek or flush of a fill phase fails with an
\* error that is not taken for a bad block while retries_left = 0, the
\* engine publishes StageCompleted(Some(e)) then Completed(Some(e)) with
\* that error, returns false and makes no further storage call; the position
\* stays where the call failed (the start of the block whose write or seek
\* failed, total_size for flush); the blocks written in this phase are
\* exactly the blocks that are not marked between the position the attempt
\* started at and that position, and they hold the stage's bytes.
C16_FillFailureTerminal ==
    \A c \in 1..Len(log) : IsFillFault(c) =>
        LET p == log[c].position
            from == log[SpanStart(c)].position
            written == {b \in 0..(TaskBlocks - 1) :
                          /\ from <= b * task.block_size
                          /\ b * task.block_size < p
                          /\ b \notin log[c].bad_blocks}
        IN  /\ FaultEndsRun(c)
            /\ p % task.block_size = 0 \/ p = task.total_size
            /\ log[c].name = "write" => p < task.total_size /\ p % task.block_size = 0
            /\ log[c].name = "flush" => p = task.total_size
            /\ WrittenInPhase(c) = written
            /\ \A b \in written : \A o \in BlockOffsets(b) :
                  access.file[o] \in StageBytes(log[c].stage, o)

\* A write past a marked block failed with no retry left and the run
\* returned false: the marked block before it was not written.
C16_Witness ==
    \E c \in 1..Len(log) :
        /\ IsFillFault(c)
        /\ log[c].name = "write"
        /\ pc = "done"
        /\ WrittenInPhase(c) # {}
        /\ \E b \in log[c].bad_blocks :
              /\ log[SpanStart(c)].position <= b * task.block_size
              /\ b * task.block_size < log[c].position

\* ------------------------------------------------------------- C17
\* Entry c of the log is a read whose bytes did not match the chunk.
IsMismatch(c) ==
    /\ IsCall(log[c])
    /\ log[c].name = "read"
    /\ \/ Len(log) = c /\ pc = "returned" /\ loc.err = MkErr("mismatch", c)
       \/ Len(log) > c /\ IsFailure(log[c + 1]) /\ log[c + 1].err = MkErr("mismatch", c)

\* C17: a read of a verify phase whose bytes differ from the expected chunk
\* (and only such a read) fails the phase with a verification error; the
\* block is not marked, no MarkBlockAsBad is published and state.position
\* stays at the start of that block; with retries_left = 0 the engine
\* publishes StageCompleted(Some(e)) and Completed(Some(e)), run returns
\* false and the wipe command exits with a status other than 0.
C17_MismatchFails ==
    /\ (Len(log) > 0 /\ IsCall(log[Len(log)]) /\ log[Len(log)].name = "read"
        /\ log[Len(log)].out \in {"ok", "corrupt"}) =>
          /\ pc = "returned"
          /\ IsMismatch(Len(log))
          /\ SubSeq(loc.buf, 1, log[Len(log)].arg) # StreamGet(loc.stream)
    /\ (Len(log) > 1 /\ IsCall(log[Len(log) - 1]) /\ log[Len(log) - 1].name = "read"
        /\ IsNamed(log[Len(log)], "Progress")) =>
          /\ log[Len(log) - 1].out = "ok"
          /\ SubSeq(loc.buf, 1, log[Len(log) - 1].arg) = StreamGet(loc.stream)
    /\ \A c \in 1..Len(log) : (IsCall(log[c]) /\ log[c].name = "read" /\ log[c].out = "corrupt") =>
          IsMismatch(c)
    /\ \A c \in 1..Len(log) : IsMismatch(c) =>
          LET p == log[c].position
          IN  /\ log[c].at_verification
              /\ p % task.block_size = 0
              /\ BlockOf(p) \notin log[c].bad_blocks
              /\ Len(log) = c => state.position = p /\ state.bad_blocks = log[c].bad_blocks
              /\ Len(log) > c =>
                    /\ log[c + 1].position = p
                    /\ log[c + 1].bad_blocks = log[c].bad_blocks
                    /\ Len(log) >= c + 2
                    /\ log[c].retries_left > 0 => IsNamed(log[c + 2], "Retrying")
                    /\ log[c].retries_left = 0 =>
                          /\ IsNamed(log[c + 2], "Completed")
                          /\ log[c + 2].err = log[c + 1].err
                          /\ Len(log) = c + 2
                          /\ pc = "done"
                          /\ ~loc.result
                          /\ ExitStatus(loc.result) # 0
                          /\ state.position = p
                          /\ BlockOf(p) \notin state.bad_blocks

\* The bytes read for a block past the first differed with no retry left,
\* and run returned.
C17_Witness ==
    \E c \in 1..Len(log) :
        /\ IsMismatch(c)
        /\ log[c].position > 0
        /\ log[c].retries_left = 0
        /\ pc = "done"

\* ------------------------------------------------------------- C18
\* C18: a read of a verify phase that reports a bad block (an error that
\* wraps an io::Error) is returned as the error of the phase:
\* StageCompleted(Some(e)) follows, then Retrying or Completed(Some(e)); the
\* block is not added to state.bad_blocks and no MarkBlockAsBad is published
\* for it.
C18_BadReadFailsVerify ==
    \A c \in 1..Len(log) : (IsCall(log[c]) /\ log[c].name = "read" /\ log[c].out = "io") =>
        /\ log[c].at_verification
        /\ Len(log) = c =>
              /\ pc = "returned"
              /\ loc.err = MkErr("io", c)
              /\ state.bad_blocks = log[c].bad_blocks
              /\ state.position = log[c].position
        /\ Len(log) > c =>
              /\ IsFailure(log[c + 1])
              /\ log[c + 1].err = MkErr("io", c)
              /\ log[c + 1].bad_blocks = log[c].bad_blocks
              /\ log[c + 1].position = log[c].position
              /\ Len(log) >= c + 2
              /\ log[c + 2].bad_blocks = log[c].bad_blocks
              /\ IF log[c].retries_left > 0
                 THEN IsNamed(log[c + 2], "Retrying")
                 ELSE IsNamed(log[c + 2], "Completed") /\ log[c + 2].err = log[c + 1].err

\* A read failed past the first block and the phase was retried.
C18_Witness ==
    \E c \in 1..(Len(log) - 2) :
        /\ IsCall(log[c]) /\ log[c].name = "read" /\ log[c].out = "io"
        /\ log[c].position > 0
        /\ IsNamed(log[c + 2], "Retrying")

\* ------------------------------------------------------------- C19
\* The errors a storage reports a bad block with: those that wrap an
\* io::Error, from a bad position of the device or not.
BadBlockErrors == {"io", "bad"}

\* Entry c of the log is a seek or write of a fill phase that failed with a
\* bad-block error.
IsFillBadBlock(c) ==
    /\ IsCall(log[c])
    /\ ~log[c].at_verification
    /\ log[c].name \in {"seek", "write"}
    /\ log[c].out \in BadBlockErrors

\* C19: a bad-block error of access.write or access.seek in a fill phase is
\* recovered inside fill: the block is marked, MarkBlockAsBad follows with
\* retries_left unchanged, and the error is carried by no StageCompleted and
\* no Completed; the error of every failed fill phase is that of a flush or
\* of a call that failed with an error that is not a bad-block error.
C19_BadBlockRecovered ==
    /\ \A c \in 1..Len(log) : IsFillBadBlock(c) =>
          /\ Len(log) > c
          /\ IsNamed(log[c + 1], "MarkBlockAsBad")
          /\ log[c + 1].retries_left = log[c].retries_left
          /\ BlockOf(log[c].position) \in log[c + 1].bad_blocks
          /\ loc.err.id # c
          /\ loc.wipe_error.id # c
          /\ \A j \in 1..Len(log) : log[j].err.id # c
    /\ \A j \in 1..Len(log) : (IsFailure(log[j]) /\ ~log[j].at_verification) =>
          LET c == log[j].err.id
          IN  /\ c = j - 1
              /\ IsCall(log[c])
              /\ log[c].out # "ok"
              /\ log[c].name = "flush" \/ log[c].out \notin BadBlockErrors

\* A write and a seek of fill phases reported bad blocks, and the run
\* returned true without having used a retry.
C19_Witness ==
    /\ pc = "done"
    /\ loc.result
    /\ state.retries_left = InitialRetries
    /\ \E c \in 1..Len(log) : IsFillBadBlock(c) /\ log[c].name = "write"
    /\ \E c \in 1..Len(log) : IsFillBadBlock(c) /\ log[c].name = "seek"

\* ------------------------------------------------------------- C20
\* Entry c of the log is a seek or write of a fill phase that failed with an
\* OS error that is no media failure at that position (permission denied,
\* device busy): an error that wraps an io::Error on a device without a bad
\* position there.
IsFillOsError(c) ==
    /\ IsCall(log[c])
    /\ ~log[c].at_verification
    /\ log[c].name \in {"seek", "write"}
    /\ log[c].out = "io"

\* C20 as claimed: such a failure makes fill return the error, ending the
\* phase with StageCompleted(Some(e)); the block is not marked and no
\* MarkBlockAsBad is published for it.
C20_OsErrorTerminal ==
    \A c \in 1..Len(log) : IsFillOsError(c) =>
        /\ Len(log) = c =>
              /\ pc = "returned"
              /\ loc.err = MkErr("io", c)
              /\ state.bad_blocks = log[c].bad_blocks
        /\ Len(log) > c =>
              /\ IsFailure(log[c + 1])
              /\ log[c + 1].err = MkErr("io", c)
              /\ log[c + 1].bad_blocks = log[c].bad_blocks

\* A write failed with such an error on a device without bad positions; the
\* block was marked and passed over, and the run returned true with the
\* block never written.
C20_Witness ==
    /\ pc = "done"
    /\ loc.result
    /\ access.bad_blocks = {}
    /\ \E c \in 1..(Len(log) - 1) :
          /\ IsFillOsError(c)
          /\ log[c].name = "write"
          /\ IsNamed(log[c + 1], "MarkBlockAsBad")
          /\ BlockOf(log[c].position) \in state.bad_blocks
          /\ access.file[log[c].position] = InitByte

\* ------------------------------------------------------------- C21
\* C21: the set of block indices in state.bad_blocks never decreases during
\* a run: every index marked at an event or storage call is still marked at
\* every later one and in the current state, across phases, retries and
\* stages.
C21_BadBlocksNeverDecrease ==
    /\ \A i \in 1..Len(log) : \A j \in i..Len(log) :
          log[i].bad_blocks \subseteq log[j].bad_blocks
    /\ Len(log) > 0 => log[Len(log)].bad_blocks \subseteq state.bad_blocks

\* A block the caller marked and a block marked in the first stage before a
\* retry are both still marked when the second stage has run and run
\* returned, with a third block marked after the retry.
C21_Witness ==
    /\ pc = "done"
    /\ state.stage = 1
    /\ log[1].bad_blocks # {}
    /\ \E i \in 1..Len(log) : \E j \in (i + 1)..Len(log) :
          /\ IsNamed(log[i], "MarkBlockAsBad")
          /\ log[i].stage = 0
          /\ IsNamed(log[j], "Retrying")
          /\ log[j].bad_blocks # state.bad_blocks
          /\ log[1].bad_blocks # log[i].bad_blocks
    /\ Cardinality(state.bad_blocks) = 3

\* ------------------------------------------------------------- C22
\* ceil((total_size - start_from) / block_size), 0 when start_from >= total_size.
ChunksExpected(total_size, block_size, start_from) ==
    IF start_from >= total_size THEN 0
    ELSE (total_size - start_from + block_size - 1) \div block_size

RECURSIVE SumLen(_)
SumLen(chunks) ==
    IF chunks = <<>> THEN 0 ELSE Len(Head(chunks)) + SumLen(Tail(chunks))

\* What C22 states of one iteration.
ChunksAsStated(it) ==
    LET k == ChunksExpected(strm.total_size, strm.block_size, it.start_from)
        n == Len(it.chunks)
    IN  /\ n <= k
        /\ \A j \in 1..n :
              /\ j < k => Len(it.chunks[j]) = strm.block_size
              /\ j = k => Len(it.chunks[j]) =
                            strm.total_size - it.start_from - strm.block_size * (k - 1)
              /\ Len(it.chunks[j]) >= 1
        /\ it.nones > 0 =>
              /\ n = k
              /\ it.s.eof
              /\ SumLen(it.chunks) =
                    IF k = 0 THEN 0 ELSE strm.total_size - it.start_from
        /\ it.nones = 0 => ~it.s.eof
        /\ strm.stage.kind = "Fill" =>
              \A j \in 1..n : \A x \in 1..Len(it.chunks[j]) :
                  it.chunks[j][x] = strm.stage.value

\* C22: Stage::stream(total_size, block_size, start_from) yields exactly
\* ceil((total_size - start_from) / block_size) chunks (none when start_from
\* >= total_size); every chunk but the last has length block_size, the last
\* has length total_size - start_from - block_size * (k - 1), the lengths sum
\* to total_size - start_from, and after the last chunk next() returns None
\* forever; for a constant stage every byte of every chunk equals value.
C22_StreamChunks ==
    pc = "stream" => ChunksAsStated(strm.a) /\ ChunksAsStated(strm.b)

\* A constant stream started inside a block, with a shorter last chunk, was
\* iterated to its end and asked again.
C22_Witness ==
    /\ pc = "stream"
    /\ strm.stage.kind = "Fill"
    /\ strm.a.start_from % strm.block_size # 0
    /\ Len(strm.a.chunks) >= 2
    /\ Len(strm.a.chunks[Len(strm.a.chunks)]) < strm.block_size
    /\ strm.a.nones = MaxNones

\* ------------------------------------------------------------- C23
\* The bytes an iteration has yielded, in order.
RECURSIVE Flat(_)
Flat(chunks) == IF chunks = <<>> THEN <<>> ELSE Head(chunks) \o Flat(Tail(chunks))

\* The absolute positions whose bytes the iteration has yielded.
Yielded(it) == {p \in 0..(MaxTotal + MaxStart) :
                   it.start_from <= p /\ p < it.start_from + Len(Flat(it.chunks))}

\* The byte the iteration yielded for the absolute position p.
ByteAt(it, p) == Flat(it.chunks)[p - it.start_from + 1]

\* C23 as claimed: for every seed, total_size and block_size, and every
\* start offset o divisible by 4, the random stage's stream started at o
\* yields, for every absolute position >= o, the same byte as the stream
\* started at 0 yields at that position; two streams of the same stage with
\* the same start produce identical chunks.
C23_RandomPositional ==
    (pc = "stream" /\ strm.stage.kind = "Random") =>
        /\ (strm.a.start_from % 4 = 0 /\ strm.b.start_from = 0) =>
              \A p \in Yielded(strm.a) \cap Yielded(strm.b) :
                  ByteAt(strm.a, p) = ByteAt(strm.b, p)
        /\ strm.a.start_from = strm.b.start_from =>
              \A j \in 1..Min(Len(strm.a.chunks), Len(strm.b.chunks)) :
                  strm.a.chunks[j] = strm.b.chunks[j]

\* With blocks of 2 bytes the stream started at 4 and the stream started at
\* 0 have both yielded the byte at position 4, and the bytes differ.
C23_Witness ==
    /\ pc = "stream"
    /\ strm.stage.kind = "Random"
    /\ strm.block_size = 2
    /\ strm.a.start_from = 4
    /\ strm.b.start_from = 0
    /\ 4 \in Yielded(strm.a) \cap Yielded(strm.b)
    /\ ByteAt(strm.a, 4) # ByteAt(strm.b, 4)

\* ------------------------------------------------------------- C24
\* The spans a successful run has: one per stage, and one more for each
\* stage that is verified.
SpansOfRun ==
    Len(Stages) + Cardinality({i \in 0..LastStageIndex : VerifyRequired(i)})

\* C24 as claimed: with total_size = 0 every span consists of StageStarted
\* followed by StageCompleted(None) with no Progress between them, and the
\* run ends with Completed(None) and returns true.
C24_NoProgressWhenEmpty ==
    task.total_size = 0 =>
        /\ \A k \in 1..Len(Events) : ~IsNamed(Events[k], "Progress")
        /\ pc = "done" =>
              /\ loc.result
              /\ Events[Len(Events)].err = NoErr

\* C24 amended: with total_size = 0 every span consists of StageStarted,
\* one Progress(0) (fill and verify publish the position before anything
\* else) and StageCompleted(None); no storage call is made, nothing fails
\* and no block is marked; the run ends with Completed(None) and returns
\* true, having published one span per stage and one more per verified stage.
C24_EmptyDevice ==
    task.total_size = 0 =>
        LET es == Events
            n == Len(es)
        IN  /\ log = es
            /\ \A k \in 1..n :
                  /\ es[k].name \in {"Started", "StageStarted", "Progress",
                                     "StageCompleted", "Completed"}
                  /\ es[k].err = NoErr
                  /\ es[k].position = 0
                  /\ es[k].bad_blocks = log[1].bad_blocks
                  /\ es[k].retries_left = InitialRetries
                  /\ IsNamed(es[k], "StageStarted") =>
                        /\ n > k => IsNamed(es[k + 1], "Progress") /\ es[k + 1].arg = 0
                        /\ n > k + 1 => IsSuccess(es[k + 2])
                  /\ IsNamed(es[k], "Progress") => IsNamed(es[k - 1], "StageStarted")
                  /\ IsNamed(es[k], "StageCompleted") => IsNamed(es[k - 1], "Progress")
            /\ pc = "done" =>
                  /\ loc.result
                  /\ IsNamed(es[n], "Completed")
                  /\ es[n].err = NoErr
                  /\ Count(es, "StageStarted") = SpansOfRun
                  /\ Count(es, "Progress") = SpansOfRun
                  /\ Count(es, "StageCompleted") = SpansOfRun

\* A run of two stages, both verified, over an empty device has returned.
C24_Witness ==
    /\ task.total_size = 0
    /\ pc = "done"
    /\ loc.result
    /\ Len(Stages) = 2
    /\ task.verify = "All"
    /\ Count(Events, "Progress") = 4

\* ------------------------------------------------------------- C25
\* The Progress events of the span that the StageCompleted at entry i ends.
ProgressOfSpan(i) ==
    {j \in SpanStart(i)..i : IsNamed(log[j], "Progress")}

\* C25: in every span that ends with StageCompleted(None), Progress(total_size)
\* is published exactly once and is the last Progress of the span, also when
\* total_size is not a multiple of block_size (the final advance is by the
\* remainder and is clamped to total_size) and when trailing blocks are bad.
C25_FinalProgressOnce ==
    \A i \in 1..Len(log) : IsSuccess(log[i]) =>
        LET ps == ProgressOfSpan(i)
            final == {j \in ps : log[j].arg = task.total_size}
        IN  /\ Cardinality(final) = 1
            /\ \A j \in ps : \A f \in final : j <= f
            /\ \A f \in final : log[f].position = task.total_size
            /\ log[i].position = task.total_size

\* A fill over a device whose size is not a multiple of the block size
\* succeeded after the write of its last, shorter block reported a bad block.
C25_Witness ==
    \E i \in 1..Len(log) : \E c \in 1..(i - 1) :
        /\ IsSuccess(log[i])
        /\ task.total_size % task.block_size # 0
        /\ c > SpanStart(i)
        /\ IsBadWrite(log[c])
        /\ log[c].arg < task.block_size
        /\ log[c].position > 0

\* ------------------------------------------------------------- C26
\* Event k of es is the first StageStarted of its stage.
IsFirstStart(es, k) ==
    /\ IsNamed(es[k], "StageStarted")
    /\ \A m \in 1..(k - 1) : ~(IsNamed(es[m], "StageStarted") /\ es[m].stage = es[k].stage)

\* C26: stages run in scheme order: the first StageStarted of stage i is
\* published with state.stage = i, position 0 and at_verification = false,
\* directly after Started for i = 0 and otherwise directly after the
\* StageCompleted(None) that ends stage i - 1 (of its verify phase when the
\* stage is verified, else of its fill); state.stage never decreases and
\* grows only there, by one; after a StageCompleted(Some(_)) that is not
\* retried no stage is started; a run that returned true started every stage.
C26_StagesInOrder ==
    LET es == Events
        n == Len(es)
    IN  /\ \A k \in 1..n : IsFirstStart(es, k) =>
              /\ es[k].position = 0
              /\ ~es[k].at_verification
              /\ es[k].stage < Len(Stages)
              /\ k > 1
              /\ IF es[k].stage = 0
                 THEN IsNamed(es[k - 1], "Started")
                 ELSE /\ IsSuccess(es[k - 1])
                      /\ es[k - 1].stage = es[k].stage - 1
                      /\ es[k - 1].at_verification <=> VerifyRequired(es[k - 1].stage)
        /\ \A k \in 2..n :
              /\ es[k - 1].stage <= es[k].stage
              /\ es[k - 1].stage # es[k].stage =>
                    IsFirstStart(es, k) /\ es[k].stage = es[k - 1].stage + 1
        /\ n >= 1 => es[1].stage = 0 /\ es[n].stage = state.stage
        /\ \A k \in 1..n : (IsFailure(es[k]) /\ es[k].retries_left = 0) =>
              \A m \in (k + 1)..n : ~IsNamed(es[m], "StageStarted")
        /\ (pc = "done" /\ ~loc.result) =>
              \A m \in 1..n : es[m].stage <= es[n - 1].stage
        /\ (pc = "done" /\ loc.result) =>
              \A i \in 0..LastStageIndex :
                  \E k \in 1..n : IsFirstStart(es, k) /\ es[k].stage = i

\* The first stage was retried and verified before the second stage
\* started, and the second stage ended the run with an error.
C26_Witness ==
    LET es == Events
    IN  /\ pc = "done"
        /\ ~loc.result
        /\ state.stage = 1
        /\ \E k \in 1..Len(es) :
              /\ IsFirstStart(es, k)
              /\ es[k].stage = 1
              /\ es[k - 1].at_verification
              /\ \E m \in 1..k : IsNamed(es[m], "Retrying")

\* ------------------------------------------------------------- C27
\* The indices the marker is asked about: those that are marked one by one
\* and their neighbours.
QueryIndices == MarkIndices \cup {U64(1), U64(12), U64(14), U64(132)}

\* Index j has been marked: by a call, or before the calls.
MarkedSoFar(j) == j \in marker.marked \/ StoreContains(marker.first, j)

\* The number of distinct indices marked so far.
DistinctMarked ==
    LET n == Cardinality({j \in MarkIndices : MarkedSoFar(j)})
        missing == Cardinality(MarkIndices) - n
    IN  IF ~marker.first.rest THEN U64(n)
        ELSE IF missing = 0 THEN Shl32
        ELSE <<0, 0, Base - 1, Base - missing>>

\* C27 as claimed: for any sequence of mark calls on a BlockMarker,
\* is_marked(j) is true exactly for the indices marked so far and
\* total_marked() equals the number of distinct marked indices; repeating
\* mark(i) changes neither, including for the edge indices 0 and 2^32 - 1.
C27_MarkerCounts ==
    pc = "marker" =>
        /\ \A j \in QueryIndices : IsMarked(marker.store, j) <=> MarkedSoFar(j)
        /\ TotalMarked(marker.store) = DistinctMarked
        /\ (marker.calls > 0 /\ IsMarked(marker.before, marker.last)) =>
              /\ TotalMarked(marker.store) = TotalMarked(marker.before)
              /\ \A j \in QueryIndices :
                    IsMarked(marker.store, j) <=> IsMarked(marker.before, j)

\* Every u32 index has been marked, the last ones being 0 and 2^32 - 1 among
\* others, and total_marked() is 0.
C27_Witness ==
    /\ pc = "marker"
    /\ marker.calls >= Cardinality(MarkIndices)
    /\ \A j \in QueryIndices : IsMarked(marker.store, j)
    /\ DistinctMarked = Shl32
    /\ TotalMarked(marker.store) = U64(0)

\* ------------------------------------------------------------- C28
\* Entry i of the log is a call of the storage access (not its opening).
IsStorageCall(e) == IsCall(e) /\ e.name \in {"seek", "read", "write", "flush"}

\* C28: if the storage access cannot be opened, the command publishes
\* exactly one Fatal(err) with the error of the opening and exits with
\* status 1 without entering the engine: no Started, StageStarted, Progress
\* or Completed is published and no storage call is made; the engine is
\* entered only after the access was opened and Fatal is published in no
\* other case; if run returns false the command exits with status 1, after
\* Completed(Some(_)) was published.
C28_FatalAndExit ==
    /\ (Len(log) > 0 /\ log[1].out # "ok") =>
          /\ IsCall(log[1]) /\ log[1].name = "open"
          /\ Len(log) = 2
          /\ IsNamed(log[2], "Fatal")
          /\ log[2].err = MkErr(log[1].out, 1)
          /\ status = 1
          /\ pc = "exited"
          /\ access.pos = 0 /\ access.faults = 0
          /\ \A o \in DOMAIN access.file : access.file[o] = InitByte
    /\ \A i \in 1..Len(log) :
          /\ IsNamed(log[i], "Fatal") => i = 2 /\ log[1].out # "ok"
          /\ (IsEv(log[i]) /\ log[i].name # "Fatal") => log[1].out = "ok"
          /\ IsStorageCall(log[i]) => log[1].out = "ok"
          /\ (IsCall(log[i]) /\ log[i].name = "open") <=> i = 1
    /\ pc \notin {"main", "exited"} => Len(log) > 0 /\ log[1].out = "ok"
    /\ (pc = "exited") <=> (status # Running)
    /\ (pc = "exited" /\ IsNamed(log[Len(log)], "Completed")
        /\ log[Len(log)].err # NoErr) =>
          /\ ~loc.result
          /\ status = 1
    /\ (pc = "exited" /\ status = 1) =>
          \/ IsNamed(log[Len(log)], "Fatal")
          \/ IsNamed(log[Len(log)], "Completed") /\ log[Len(log)].err # NoErr
    /\ (pc = "done" /\ ~loc.result) =>
          IsNamed(log[Len(log)], "Completed") /\ log[Len(log)].err # NoErr

\* The opening of the device failed and the command has exited.
C28_Witness ==
    /\ pc = "exited"
    /\ status = 1
    /\ Len(log) = 2
    /\ IsCall(log[1]) /\ log[1].name = "open" /\ log[1].out = "io"
    /\ IsNamed(log[2], "Fatal")
    /\ task.total_size > 0

\* ------------------------------------------------------------- C29
\* The argument is a decimal number optionally followed by k, K, m or M.
IsPlainArg(s) ==
    /\ DigitPrefix(s) >= 1
    /\ \/ Len(s) = DigitPrefix(s)
       \/ Len(s) = DigitPrefix(s) + 1 /\ s[Len(s)] \in {"k", "K", "m", "M"}

\* The value of a string of digits, on digits enough for every argument.
RECURSIVE Decimal(_, _)
Decimal(s, acc) ==
    IF s = <<>> THEN acc ELSE Decimal(Tail(s), MulAdd(acc, 10, DigitVal(Head(s))))

\* The byte total of an argument the regular expression matches: the number
\* times 1, 1024 or 1024 * 1024, on 112 bits.
ByteTotal(s) ==
    LET n == Decimal(SubSeq(s, 1, DigitPrefix(s)), <<0, 0, 0, 0, 0, 0, 0>>)
    IN  CASE UnitOf(s) = "K" -> MulAdd(n, 1024, 0)
          [] UnitOf(s) = "M" -> MulAdd(MulAdd(n, 1024, 0), 1024, 0)
          [] OTHER -> n

\* w is a power of two: one digit is, and the others are 0.
IsPowerOfTwo(w) ==
    \E i \in 1..Len(w) :
        /\ \E e \in 0..15 : w[i] = 2 ^ e
        /\ \A j \in 1..Len(w) : j # i => w[j] = 0

\* The total fits in a usize.
FitsUsize(w) == \A j \in 1..(Len(w) - 4) : w[j] = 0

\* C29 as claimed: parse_block_size accepts a decimal number optionally
\* followed by k/K/m/M (1024-based) and returns Ok(n) with n the byte total;
\* for every input whose byte total is not a power of two, including a total
\* of 0, it returns Err; it never returns a value that is not a power of two
\* or not the byte total, and it never aborts.
C29_ParseBlockSize ==
    (pc = "parsed" /\ parse.returned) =>
        LET s == parse.input
            r == parse.result
        IN  /\ r.kind \in {"Ok", "Err"}
            /\ ~BlockSizeRegex(s) => r.kind = "Err"
            /\ BlockSizeRegex(s) =>
                  /\ ~IsPowerOfTwo(ByteTotal(s)) => r.kind = "Err"
                  /\ r.kind = "Ok" =>
                        /\ <<0, 0, 0>> \o r.value = ByteTotal(s)
                        /\ IsPowerOfTwo(<<0, 0, 0>> \o r.value)
                  /\ (IsPlainArg(s) /\ IsPowerOfTwo(ByteTotal(s))
                      /\ FitsUsize(ByteTotal(s))) =>
                        r = ParseOk(SubSeq(ByteTotal(s), 4, 7))

\* "0k" was parsed by a build without overflow checks, which returned Ok(0).
C29_Witness ==
    /\ pc = "parsed"
    /\ parse.returned
    /\ parse.input = <<"0", "k">>
    /\ parse.build = "release"
    /\ parse.result = ParseOk(U64(0))

\* ------------------------------------------------------------- C30
\* A successful seek to the offset p
IsSeekOkTo(e, p) ==
    /\ e.k = "call"
    /\ e.name = "seek"
    /\ e.out = "ok"
    /\ e.arg = p

\* C30: every step of seek_to_the_next_safe_position leaves the position or
\* advances it by one block (clamped to total_size); it advances only past
\* a block that is marked, either before the step or by the bad block a seek
\* to it reported in the step, and publishes exactly one Progress, with the
\* new position, for it; it returns Ok only at position >= total_size or at
\* an unmarked block with a successful seek to the position as the last
\* storage call, the storage being there; and an unmarked block whose seek
\* succeeds is not passed over.
C30_SeekNextSafe ==
    [][pc = "seek_safe" =>
        LET bs == task.block_size
            p == state.position
            q == state'.position
            blk == p \div bs
            added == SubSeq(log', Len(log) + 1, Len(log'))
            calls == {i \in 1..Len(added) : added[i].k = "call"}
            progress == {i \in 1..Len(added) :
                            added[i].k = "ev" /\ added[i].name = "Progress"}
            ok == \/ pc' \in {"fill_loop", "verify_loop"}
                  \/ pc' = "returned" /\ loc'.err = NoErr
        IN  /\ q \in {p, Min(p + bs, task.total_size)}
            /\ calls \subseteq {1}
            /\ \A i \in calls : added[i].name = "seek" /\ added[i].arg = p
            /\ q # p =>
                  /\ p < task.total_size
                  /\ pc' = "seek_safe"
                  /\ blk \in state'.bad_blocks
                  /\ blk \notin state.bad_blocks =>
                        /\ calls = {1}
                        /\ added[1].out # "ok"
                        /\ Len(added) = 3
                        /\ added[2] = [Ev(state', "MarkBlockAsBad", p, NoErr)
                                        EXCEPT !.position = p]
                  /\ blk \in state.bad_blocks => Len(added) = 1
                  /\ progress = {Len(added)}
                  /\ added[Len(added)].arg = q
                  /\ added[Len(added)].position = q
            /\ q = p =>
                  /\ progress = {}
                  /\ pc' # "seek_safe"
            /\ ok =>
                  /\ q = p
                  /\ state'.bad_blocks = state.bad_blocks
                  /\ \/ /\ p >= task.total_size
                        /\ added = <<>>
                     \/ /\ p < task.total_size
                        /\ blk \notin state.bad_blocks
                        /\ Len(added) = 1
                        /\ IsSeekOkTo(added[1], p)
                        /\ access'.pos = p
            /\ (calls = {1} /\ added[1].out = "ok") => (q = p /\ ok)
    ]_vars

\* Block 0 is marked, seek_to_the_next_safe_position passed over it with a
\* Progress and returned at block 1 after a successful seek to it.
C30_Witness ==
    /\ pc = "fill_loop"
    /\ task.total_size >= 2 * task.block_size
    /\ state.position = task.block_size
    /\ state.bad_blocks = {0}
    /\ access.pos = state.position
    /\ Len(log) >= 2
    /\ IsSeekOkTo(log[Len(log)], state.position)
    /\ log[Len(log) - 1].k = "ev"
    /\ log[Len(log) - 1].name = "Progress"
    /\ log[Len(log) - 1].arg = state.position

\* ------------------------------------------------------------- C31
\* The entries of the log that belong to stage i.
EntriesOfStage(i) == {k \in 1..Len(log) : log[k].stage = i}

\* The blocks that are marked when stage i ends.
MarkedAtEndOf(i) ==
    LET last == CHOOSE k \in EntriesOfStage(i) : \A j \in EntriesOfStage(i) : j <= k
    IN  log[last].bad_blocks

\* Entry k is a read of block b in a verify phase of stage i that returned
\* the bytes and was followed by the advance, that is compared equal.
IsVerifiedAt(k, i, b) ==
    /\ log[k].k = "call"
    /\ log[k].name = "read"
    /\ log[k].out = "ok"
    /\ log[k].stage = i
    /\ log[k].at_verification
    /\ log[k].position = b * task.block_size
    /\ k < Len(log)
    /\ log[k + 1].k = "ev"
    /\ log[k + 1].name = "Progress"

\* Entry k is a write to block b in stage i.
IsWriteTo(k, i, b) ==
    /\ log[k].k = "call"
    /\ log[k].name = "write"
    /\ log[k].stage = i
    /\ log[k].position = b * task.block_size

\* C31 as claimed: when run returned true, for every stage that had to be
\* verified, every block that is not marked at the end of the stage was read
\* back and compared equal in a verify phase of the stage, after the last
\* write to the block in the stage.
C31_VerifiedAfterLastWrite ==
    (pc = "done" /\ loc.result) =>
        \A i \in 0..(Len(Stages) - 1) :
            HaveToVerify(task.verify, i, Len(Stages)) =>
                \A b \in 0..(NumBlocks(task.total_size, task.block_size) - 1) :
                    b \notin MarkedAtEndOf(i) =>
                        \E k \in 1..Len(log) :
                            /\ IsVerifiedAt(k, i, b)
                            /\ \A w \in 1..Len(log) : IsWriteTo(w, i, b) => w < k

\* run returned true with every stage verified, block 0 was written in
\* stage 0 and is not marked, and no read of stage 0 was made at block 0:
\* the fill failed after block 0 and the retry took its watermark there.
C31_Witness ==
    /\ pc = "done"
    /\ loc.result
    /\ task.verify = "All"
    /\ state.bad_blocks = {}
    /\ task.total_size > task.block_size
    /\ \E w \in 1..Len(log) : IsWriteTo(w, 0, 0) /\ log[w].out = "ok"
    /\ \A k \in 1..Len(log) : ~IsVerifiedAt(k, 0, 0)
    /\ \E k \in 1..Len(log) : IsVerifiedAt(k, 0, 1)

\* ------------------------------------------------------------- C32
\* Entry k is the StageCompleted(None) that ends a fill phase.
IsFillCompleted(k) ==
    /\ log[k].k = "ev"
    /\ log[k].name = "StageCompleted"
    /\ log[k].err = NoErr
    /\ ~log[k].at_verification

\* Entry k is a call of name in the stage of entry c, before c.
IsCallBefore(k, name, c) ==
    /\ k < c
    /\ log[k].k = "call"
    /\ log[k].name = name
    /\ log[k].stage = log[c].stage

\* C32 as claimed: whenever a fill phase ends with StageCompleted(None) in a
\* stage in which a write was issued, a flush returned success after the
\* last write of the stage and before the StageCompleted.
C32_FlushedBeforeCompleted ==
    \A c \in 1..Len(log) :
        (IsFillCompleted(c) /\ \E w \in 1..Len(log) : IsCallBefore(w, "write", c)) =>
            \E f \in 1..Len(log) :
                /\ IsCallBefore(f, "flush", c)
                /\ log[f].out = "ok"
                /\ \A w \in 1..Len(log) : IsCallBefore(w, "write", c) => w < f

\* A fill phase ended with StageCompleted(None) after the writes of its
\* stage, whose only flush failed: the retry found the position at the end
\* and returned without a flush.
C32_Witness ==
    \E c \in 1..Len(log) :
        /\ IsFillCompleted(c)
        /\ \E w \in 1..Len(log) : IsCallBefore(w, "write", c) /\ log[w].out = "ok"
        /\ \E f \in 1..Len(log) : IsCallBefore(f, "flush", c)
        /\ \A f \in 1..Len(log) : IsCallBefore(f, "flush", c) => log[f].out # "ok"

\* ------------------------------------------------------------- C33
\* The iteration after n calls of next().
RECURSIVE IterTimes(_, _)
IterTimes(it, n) == IF n = 0 THEN it ELSE IterTimes(IterNext(it), n - 1)

\* The chunk the stream of stage i started at 0 yields for the offset p.
StageChunkAt(i, p) ==
    LET n == p \div task.block_size + 1
    IN  IterTimes(Iter(Stages[i + 1], task.total_size, task.block_size, 0), n).chunks[n]

\* The step calls access.write or access.read.
WritesOrReads ==
    /\ Len(log') > Len(log)
    /\ log'[Len(log) + 1].k = "call"
    /\ log'[Len(log) + 1].name \in {"write", "read"}

\* C33 as claimed: at every access.write(chunk) and access.read(buf) the
\* storage's offset equals state.position, and the chunk is the chunk of the
\* stage's stream for the absolute offset state.position.
C33_Lockstep ==
    [][WritesOrReads =>
          /\ access.pos = state.position
          /\ log'[Len(log) + 1].offs = state.position
          /\ log'[Len(log) + 1].arg = Len(StreamGet(loc'.stream))
          /\ StreamGet(loc'.stream) = StageChunkAt(state.stage, state.position)
      ]_vars

\* With blocks of 2 bytes a fill of the random stage that was retried at
\* offset 2 has written there, and the byte it wrote is not the byte of the
\* stage's stream for offset 2.
C33_Witness ==
    /\ pc = "fill_loop"
    /\ task.block_size = 2
    /\ Stages[state.stage + 1].kind = "Random"
    /\ loc.watermark = 2
    /\ Len(log) >= 2
    /\ log[Len(log) - 1].k = "call"
    /\ log[Len(log) - 1].name = "write"
    /\ log[Len(log) - 1].out = "ok"
    /\ log[Len(log) - 1].offs = 2
    /\ log[Len(log) - 1].position = 2
    /\ access.file[2] # StageChunkAt(state.stage, 2)[1]

\* ------------------------------------------------------------- C34
\* The step is a read of verify after which the block passed as matching.
ReadPasses ==
    /\ pc = "verify_loop"
    /\ Len(log') > Len(log)
    /\ log'[Len(log) + 1].k = "call"
    /\ log'[Len(log) + 1].name = "read"
    /\ state'.position > state.position

\* C34 as claimed: verify lets a block pass as matching only if all the
\* bytes of the chunk were read from the storage in that iteration and are
\* equal to the chunk; a read that returns fewer bytes than asked for never
\* lets the block pass.
C34_WholeBlockCompared ==
    [][ReadPasses =>
          LET chunk == StreamGet(loc'.stream)
          IN  /\ log'[Len(log) + 1].out = "ok"
              /\ access'.pos = access.pos + Len(chunk)
              /\ \A j \in 1..Len(chunk) : access.file[access.pos + j - 1] = chunk[j]
      ]_vars

\* A read of block 1 returned fewer bytes than the block has and the block
\* passed: the position is past the block and the storage's offset is not.
C34_Witness ==
    /\ pc = "verify_loop"
    /\ Len(log) >= 2
    /\ log[Len(log) - 1].k = "call"
    /\ log[Len(log) - 1].name = "read"
    /\ log[Len(log) - 1].out = "short"
    /\ log[Len(log) - 1].position = task.block_size
    /\ log[Len(log)].k = "ev"
    /\ log[Len(log)].name = "Progress"
    /\ state.position = task.total_size
    /\ access.pos < state.position

\* ------------------------------------------------------------- C35
\* The entries of the log that are MarkBlockAsBad events.
MarkEntries == {k \in 1..Len(log) : log[k].k = "ev" /\ log[k].name = "MarkBlockAsBad"}

\* C35: MarkBlockAsBad is published exactly when an index is added to
\* state.bad_blocks: every such event follows the addition of one index that
\* was not marked, and carries index * block_size; the marker changes at no
\* other entry; no two events carry the same block; and the number of events
\* published so far is total_marked() less its value at the start of the run.
C35_MarkEventPerNewIndex ==
    (Len(log) >= 1) =>
        /\ \A k \in MarkEntries :
              /\ k > 1
              /\ \E idx \in log[k].bad_blocks \ log[k - 1].bad_blocks :
                    /\ log[k].bad_blocks = log[k - 1].bad_blocks \cup {idx}
                    /\ log[k].arg = idx * task.block_size
        /\ \A k \in 2..Len(log) :
              log[k].bad_blocks # log[k - 1].bad_blocks => k \in MarkEntries
        /\ state.bad_blocks = log[Len(log)].bad_blocks
        /\ \A k1, k2 \in MarkEntries : log[k1].arg = log[k2].arg => k1 = k2
        /\ Cardinality(MarkEntries) =
              Cardinality(state.bad_blocks) - Cardinality(log[1].bad_blocks)

\* A run that started with block 1 marked has marked blocks 0 and 2 and
\* published two MarkBlockAsBad events.
C35_Witness ==
    /\ Len(log) >= 1
    /\ log[1].bad_blocks = {1}
    /\ state.bad_blocks = {0, 1, 2}
    /\ Cardinality(MarkEntries) = 2
    /\ {log[k].arg : k \in MarkEntries} = {0, 2 * task.block_size}

\* ------------------------------------------------------------- C36
\* C36 as claimed: every index the engine adds to state.bad_blocks is below
\* ceil(total_size / block_size), and every MarkBlockAsBad carries a block
\* start strictly below total_size.
C36_MarksWithinDevice ==
    (Len(log) >= 1) =>
        /\ \A b \in state.bad_blocks \ log[1].bad_blocks :
              b < NumBlocks(task.total_size, task.block_size)
        /\ \A k \in MarkEntries :
              /\ log[k].arg % task.block_size = 0
              /\ log[k].arg < task.total_size

\* The write of the last block reported a bad block, fill advanced to
\* total_size and its try_seek there failed: the block past the last one is
\* marked and reported with the payload total_size.
C36_Witness ==
    /\ Len(log) >= 2
    /\ task.total_size = 2 * task.block_size
    /\ 2 \in state.bad_blocks
    /\ log[Len(log)].k = "ev"
    /\ log[Len(log)].name = "MarkBlockAsBad"
    /\ log[Len(log)].arg = task.total_size
    /\ log[Len(log) - 1].k = "call"
    /\ log[Len(log) - 1].name = "seek"
    /\ log[Len(log) - 1].arg = task.total_size

\* ------------------------------------------------------------- C37
\* The number of events of the name published so far.
CountOf(name) ==
    Cardinality({k \in 1..Len(log) : log[k].k = "ev" /\ log[k].name = name})

\* A StageStarted was published and its StageCompleted was not yet.
StagePending == CountOf("StageStarted") > CountOf("StageCompleted")

\* run has returned, and Completed was the last thing it published.
RunCompleted ==
    /\ pc = "done"
    /\ Len(log) > 0
    /\ log[Len(log)].k = "ev"
    /\ log[Len(log)].name = "Completed"
    /\ CountOf("Completed") = 1

\* C37: run terminates for every task, every retries_left and every storage
\* behaviour in which each call returns: every StageStarted is eventually
\* followed by a StageCompleted, and Completed is eventually published.
C37_RunTerminates ==
    /\ <>RunCompleted
    /\ (StagePending ~> ~StagePending)

\* run has returned after a phase failed and was retried, a block was marked
\* and passed over, and another phase failed with no retry left.
C37_Witness ==
    /\ RunCompleted
    /\ ~StagePending
    /\ ~loc.result
    /\ state.retries_left = 0
    /\ CountOf("Retrying") = 1
    /\ CountOf("MarkBlockAsBad") >= 1

\* ------------------------------------------------------------- C38
\* The names of the storage calls the step makes.
CallsOfStep ==
    {log'[k].name : k \in {j \in (Len(log) + 1)..Len(log') : log'[j].k = "call"}}

\* C38: a verify phase calls neither access.write nor access.flush and
\* leaves the contents of the storage as they are from its StageStarted to
\* its StageCompleted; a fill phase does not call access.read; and the
\* contents change only by a write of a fill phase.
C38_PhaseCalls ==
    [][/\ loc.phase = "verify" =>
             /\ CallsOfStep \subseteq {"seek", "read"}
             /\ access'.file = access.file
       /\ loc.phase = "fill" => CallsOfStep \subseteq {"seek", "write", "flush"}
       /\ state.at_verification => loc.phase = "verify"
       /\ access'.file # access.file =>
             /\ "write" \in CallsOfStep
             /\ ~state.at_verification
      ]_vars

\* A verify phase has read block 0 of a device the fill phase has written:
\* the log of the stage holds writes and a flush before the verify phase's
\* StageStarted and seeks and reads after it.
C38_Witness ==
    /\ pc = "verify_loop"
    /\ loc.phase = "verify"
    /\ state.at_verification
    /\ state.position = task.block_size
    /\ \A o \in DOMAIN access.file : access.file[o] # InitByte
    /\ \E k \in 1..Len(log) :
          /\ log[k].k = "call" /\ log[k].name = "read" /\ log[k].at_verification
    /\ \E k \in 1..Len(log) :
          /\ log[k].k = "call" /\ log[k].name = "flush" /\ ~log[k].at_verification
    /\ \A k \in 1..Len(log) :
          (log[k].k = "call" /\ log[k].at_verification) => log[k].name \in {"seek", "read"}

\* ------------------------------------------------------------- C39
\* The session did not get the confirmation and exited in Started.
AbortedAtStarted ==
    /\ pc = "exited"
    /\ status = 0
    /\ IsNamed(log[Len(log)], "Started")

\* C39: the engine makes no call of seek, read, write or flush before the
\* receiver returned from Started: every such call has Started before it,
\* and the first storage call follows a StageStarted and a Progress; when
\* the session exits in Started, no such call was made, nothing else was
\* published and the contents and the offset of the device are those it
\* was opened with.
C39_NoCallBeforeStarted ==
    /\ \A k \in 1..Len(log) :
          IsStorageCall(log[k]) =>
              /\ \E j \in 1..(k - 1) : IsNamed(log[j], "Started")
              /\ \E j \in 1..(k - 1) : IsNamed(log[j], "StageStarted")
              /\ ~AbortedAtStarted
    /\ \A k \in 1..Len(log) :
          IsNamed(log[k], "Started") =>
              \A j \in 1..(k - 1) : IsCall(log[j]) /\ log[j].name = "open"
    /\ AbortedAtStarted =>
          /\ Len(log) = 2
          /\ access.pos = 0
          /\ access.faults = 0
          /\ \A o \in DOMAIN access.file : access.file[o] = InitByte
          /\ state.position = 0 /\ state.stage = 0 /\ ~state.at_verification
          /\ state.bad_blocks = log[1].bad_blocks

\* The device was opened, Started was published and the session exited
\* with 0 without the confirmation.
C39_Witness ==
    /\ AbortedAtStarted
    /\ task.total_size > 0
    /\ Len(log) = 2
    /\ IsCall(log[1]) /\ log[1].name = "open" /\ log[1].out = "ok"

\* ------------------------------------------------------------- C40
\* Completed(None) was published.
CompletedNone ==
    \E k \in 1..Len(log) : IsNamed(log[k], "Completed") /\ log[k].err = NoErr

\* C40 as claimed: for every task WipeTask::new accepted and every final
\* marker the session's handling of Completed(None) does not divide by zero
\* (total_blocks is not 0) and does not panic, so that a successful wipe
\* ends with the summary and the exit status 0.
C40_SummaryComputed ==
    /\ status # Panicked
    /\ CompletedNone =>
          /\ ctor.result.ok
          /\ TotalBlocks # 0
          /\ pc \in {"done", "exited"}
          /\ pc = "done" => loc.result
          /\ pc = "exited" => status = 0

\* A device of 3 bytes was wiped with blocks of 4 bytes: the stage wrote it
\* whole, Completed(None) was published and the session's summary divided
\* by total_blocks = 0.
C40_Witness ==
    /\ pc = "exited"
    /\ status = Panicked
    /\ ctor.result.ok
    /\ task.total_size = 3
    /\ task.block_size = 4
    /\ state.bad_blocks = {}
    /\ CompletedNone
    /\ \A o \in DOMAIN access.file : access.file[o] # InitByte

====
